---- MODULE Spec2Model ----
(***************************************************************************)
(* State-machine model of the Swift driver of glance_store                 *)
(* (glance_store/_drivers/swift/store.py): BaseStore.add with ChunkReader, *)
(* BaseStore._delete_stale_chunks, BaseStore.delete, BaseStore.get with    *)
(* swift_retry_iter and BaseStore.get_size, run against a backend          *)
(* container whose calls may fail.                                         *)
(*                                                                         *)
(* Object names are sequences of one-character strings, so that the        *)
(* "%s-%05d" formatting of segment names and the prefix listing of the     *)
(* backend are computed, not assumed.  The bytes of the source stream are  *)
(* numbered by position (byte i has value i), which makes every loss,      *)
(* duplication or reordering of a byte visible.                            *)
(***************************************************************************)
EXTENDS Integers, Sequences, FiniteSets, TLC

VARIABLES
    conf,                  \* store configuration (self.large_object_size, ...)
    container_exists,      \* backend: does location.container exist
    objects,               \* backend: object name -> stored object
    calls,                 \* history: object-level backend calls, in order
    pc,                    \* position of the running operation
    args,                  \* arguments of the running operation
    image_size,            \* add: local image_size (reassigned at line 624)
    fd_pos,                \* add: read position of image_file
    checksum,              \* add: bytes fed to checksum.update, in order
    verifier,              \* add: bytes fed to verifier.update, in order
    reader,                \* add: the current ChunkReader
    put,                   \* add: the put_object call in progress
    written_chunks,        \* add: written_chunks
    chunk_id,              \* add: chunk_id
    combined_chunks_size,  \* add: combined_chunks_size
    stale_idx,             \* add: position of _delete_stale_chunks in chunk_list
    saved_exc,             \* add: exception held by save_and_reraise_exception
    dlo_manifest,          \* delete: headers.get('x-object-manifest')
    slo_manifest,          \* delete: headers.get('x-static-large-object')
    segments,              \* delete: listing still to be deleted
    resp_iter,             \* get: the response stream being iterated
    length,                \* get: length of swift_retry_iter
    retries,               \* get: retries of swift_retry_iter
    bytes_read,            \* get: bytes_read of swift_retry_iter
    wrapped,               \* get: is the stream driven by swift_retry_iter
    yielded,               \* get: the bytes handed to the consumer, in order
    streams,               \* get: history of the streams acquired, in order
    result,                \* outcome of the operation: return value or raised error
    manager,               \* add, get: the connection manager of the with statement
    hist                   \* history of the operation, read by the properties only

vars == <<conf, container_exists, objects, calls, pc, args, image_size, fd_pos,
          checksum, verifier, reader, put, written_chunks, chunk_id,
          combined_chunks_size, stale_idx, saved_exc, dlo_manifest,
          slo_manifest, segments, resp_iter, length, retries, bytes_read,
          wrapped, yielded, streams, result, manager, hist>>

confVars == <<conf, args>>
backendVars == <<container_exists, objects, calls>>
deleteVars == <<dlo_manifest, slo_manifest, segments>>
getVars == <<resp_iter, length, retries, bytes_read, wrapped, yielded, streams>>

----------------------------------------------------------------------------
(* Bounds of the model *)

MaxSrc == 4            \* longest source stream, in bytes
MaxSize == 4           \* largest declared image_size
MaxThreshold == 2      \* largest configured large_object_size
MaxChunk == 3          \* largest configured large_object_chunk_size
MaxRead == 2           \* largest size put_object asks of contents.read()
MaxSegments == 2       \* segments per identifier in the container a delete starts from
MaxObj == 3            \* longest stored object a get downloads, in bytes
MaxRetries == 2        \* largest configured swift_store_retry_get_count
MaxGetChunk == 2       \* longest chunk a response stream hands out
MaxReads == 4          \* most read calls made on one ChunkReader used on its own
MaxTime == 4           \* latest time the clock of a connection manager reaches
MaxLifetime == 3       \* longest validity of a token the identity service issues
MaxMargin == 2         \* largest configured pre-expiry margin
MaxTokens == 3         \* most tokens issued to one connection manager

----------------------------------------------------------------------------
(* Values *)

None == "None"

Min(a, b) == IF a < b THEN a ELSE b

RECURSIVE SumSeq(_)
SumSeq(s) == IF s = <<>> THEN 0 ELSE Head(s) + SumSeq(Tail(s))

\* exceptions: swiftclient.ClientException(http_status), the store's own
\* Duplicate / NotFound / BackendException(msg), and the rest
ClientException(status) ==
    [type |-> "ClientException", http_status |-> status, msg |-> status]
IOError == [type |-> "IOError", http_status |-> 0, msg |-> 0]
SocketError == [type |-> "SocketError", http_status |-> 0, msg |-> 0]
Duplicate == [type |-> "Duplicate", http_status |-> 0, msg |-> 0]
NotFound == [type |-> "NotFound", http_status |-> 0, msg |-> 0]
BackendException(m) == [type |-> "BackendException", http_status |-> 0, msg |-> m]

NoExc == [type |-> "None", http_status |-> 0, msg |-> 0]

CONFLICT == 409
NOT_FOUND == 404

\* a backend client error that is neither a conflict nor a missing object
ServerError == ClientException(500)

\* what a backend call may raise whatever the state of the backend
PutFaults == {ClientException(CONFLICT), ServerError, SocketError}
DeleteFaults == {ServerError, SocketError}

Raise(e) == [kind |-> "raise", exc |-> e, size |-> 0, etag |-> 0]
Return(size, etag) == [kind |-> "return", exc |-> NoExc, size |-> size, etag |-> etag]
NoResult == [kind |-> "running", exc |-> NoExc, size |-> 0, etag |-> 0]

\* one entry of the history of backend calls
Call(op, name, exc, len, hdr) ==
    [op |-> op, name |-> name, exc |-> exc, len |-> len, hdr |-> hdr]

----------------------------------------------------------------------------
(* Names *)

DigitChar(d) ==
    CASE d = 0 -> "0" [] d = 1 -> "1" [] d = 2 -> "2" [] d = 3 -> "3"
      [] d = 4 -> "4" [] d = 5 -> "5" [] d = 6 -> "6" [] d = 7 -> "7"
      [] d = 8 -> "8" [] d = 9 -> "9"

RECURSIVE Digits(_)
Digits(n) == IF n < 10 THEN <<DigitChar(n)>>
             ELSE Digits(n \div 10) \o <<DigitChar(n % 10)>>

RECURSIVE ZeroPad(_, _)
ZeroPad(s, width) == IF Len(s) >= width THEN s ELSE ZeroPad(<<"0">> \o s, width)

\* a segment name without the padding
chunk_name_unpadded(obj, id) == obj \o <<"-">> \o Digits(id)

\* "%s-%05d" % (location.obj, chunk_id)
chunk_name(obj, id) == obj \o <<"-">> \o ZeroPad(Digits(id), 5)

CONTAINER == <<"g">>

\* a manifest whose prefix is not the prefix of the segment names
manifest_header_underscore(obj) == CONTAINER \o <<"/">> \o obj \o <<"_">>

\* "%s/%s-" % (location.container, location.obj)
manifest_header(obj) == CONTAINER \o <<"/">> \o obj \o <<"-">>

Identifiers == { <<"a">>, <<"a", "-", "b">> }

----------------------------------------------------------------------------
(* The source stream image_file: byte i of the data has value i *)

SourceData(len) == [i \in 1..len |-> i]

\* fd.read(n) at position pos: the bytes returned
fd_read(src, pos, n) ==
    IF n <= 0 THEN <<>> ELSE SubSeq(src, pos + 1, Min(pos + n, Len(src)))

\* hashlib.md5(bytes).hexdigest(), as a polynomial hash of the bytes
RECURSIVE md5(_)
md5(bytes) ==
    IF bytes = <<>> THEN 7
    ELSE (md5(SubSeq(bytes, 1, Len(bytes) - 1)) * 31 + bytes[Len(bytes)]) % 1009

----------------------------------------------------------------------------
(* ChunkReader *)

NoReader == [total |-> 0, bytes_read |-> 0, is_zero_size |-> TRUE, byteone |-> <<>>,
             live |-> FALSE]

\* ChunkReader.__init__: probe one byte of fd
NewChunkReader(src, pos, total) ==
    LET byteone == fd_read(src, pos, 1)
    IN  [total |-> total, bytes_read |-> 0, is_zero_size |-> (Len(byteone) = 0),
         byteone |-> byteone, live |-> TRUE]

\* a do_read that forgets the probed byte
do_read_no_replay(r, src, pos, i) ==
    [bytes |-> fd_read(src, pos, i), taken |-> Len(fd_read(src, pos, i))]

\* a do_read that replays the probed byte on every read
do_read_replay_always(r, src, pos, i) ==
    IF i > 0
    THEN [bytes |-> r.byteone \o fd_read(src, pos, i - 1),
          taken |-> Len(fd_read(src, pos, i - 1))]
    ELSE [bytes |-> fd_read(src, pos, i), taken |-> Len(fd_read(src, pos, i))]

\* ChunkReader.do_read(i): the bytes returned, and how many of them were
\* taken from fd (the probed byte was taken by __init__)
do_read(r, src, pos, i) ==
    IF r.bytes_read = 0 /\ i > 0
    THEN [bytes |-> r.byteone \o fd_read(src, pos, i - 1),
          taken |-> Len(fd_read(src, pos, i - 1))]
    ELSE [bytes |-> fd_read(src, pos, i), taken |-> Len(fd_read(src, pos, i))]

\* a read that does not cut i to what is left of the budget
read_uncapped(r, src, pos, i) == do_read(r, src, pos, i)

\* ChunkReader.read(i): the bytes returned and the bytes taken from fd; the
\* caller adds the bytes to bytes_read, to the checksum and to the verifier
read(r, src, pos, i) ==
    LET left == r.total - r.bytes_read
        j == IF i > left THEN left ELSE i
    IN  do_read(r, src, pos, j)

----------------------------------------------------------------------------
(* The backend container *)

NoObjects == [n \in {} |-> 0]

\* a stored object: its body and the two large-object headers
Object(body, manifest, slo) ==
    [body |-> body, x_object_manifest |-> manifest, x_static_large_object |-> slo]

PutObject(objs, name, obj) ==
    [n \in (DOMAIN objs) \cup {name} |-> IF n = name THEN obj ELSE objs[n]]

DeleteObject(objs, name) == [n \in (DOMAIN objs) \ {name} |-> objs[n]]

----------------------------------------------------------------------------
(* BaseStore.add *)

data == SourceData(args.data_len)

\* a need_chunks that compares with the chunk size
need_chunks_by_chunk_size ==
    (args.image_size = 0) \/ (args.image_size >= conf.large_object_chunk_size)

\* need_chunks = (image_size == 0) or (image_size >= self.large_object_size)
need_chunks ==
    (args.image_size = 0) \/ (args.image_size >= conf.large_object_size)

NoPut == [name |-> <<>>, content_length |-> -1, sent |-> <<>>, eof |-> FALSE,
          contents |-> "none", kind |-> "none"]

\* a put_object that never stops reading its contents
BodyDoneNever == FALSE

\* put_object has sent the whole body: content_length bytes, or contents.read()
\* returned no data
BodyDone ==
    \/ put.eof
    \/ put.content_length >= 0 /\ Len(put.sent) = put.content_length

\* a handler that drops the message of the backend
SurfaceNoMessage(e) ==
    IF e.type = "ClientException"
    THEN IF e.http_status = CONFLICT THEN Duplicate ELSE BackendException(0)
    ELSE e

\* a handler that knows no conflict
SurfaceNoConflict(e) ==
    IF e.type = "ClientException" THEN BackendException(e.msg) ELSE e

\* the handler at the end of add: except swiftclient.ClientException
Surface(e) ==
    IF e.type = "ClientException"
    THEN IF e.http_status = CONFLICT THEN Duplicate ELSE BackendException(e.msg)
    ELSE e

\* a chunk size that is not cut to what is left of the image
chunk_size_uncut(size, combined) == conf.large_object_chunk_size

\* lines 573-582: the size of the next chunk, given image_size and
\* combined_chunks_size
chunk_size_of(size, combined) ==
    IF size # 0 /\ conf.large_object_chunk_size > size - combined
    THEN size - combined ELSE conf.large_object_chunk_size

\* a final size that stays the declared one
final_size_declared(size, combined) == size

\* lines 623-624: an unknown size becomes the size of the combined chunks
final_size(size, combined) == IF size = 0 THEN combined ELSE size

\* no manager has been made yet
NoManager == [allow_reauth |-> FALSE, entered |-> 0, exited |-> 0, late |-> 0]

\* get_manager_for_store(self, location, context, allow_reauth=...): a new
\* manager, neither entered nor left
get_manager_as_asked(allow_reauth) ==
    [allow_reauth |-> allow_reauth, entered |-> 0, exited |-> 0, late |-> 0]

\* lines 1168-1177: a MultiTenantStore whose swift_store_use_trusts is off gets
\* a manager that does not allow re-authentication
get_manager_for_store(allow_reauth) ==
    [allow_reauth |-> IF /\ conf.store_class = "MultiTenantStore"
                         /\ ~conf.swift_store_use_trusts
                      THEN FALSE ELSE allow_reauth,
     entered |-> 0, exited |-> 0, late |-> 0]

\* manager.get_connection(): the manager counts the calls made after the with
\* block that held it was left
connection_asked(m) == [m EXCEPT !.late = @ + (IF m.exited > 0 THEN 1 ELSE 0)]

\* a with statement that never leaves its manager
with_exit_never(m) == m

\* "with ... as manager:": the manager is entered at the head of the block and
\* left once when control leaves the block, by a return or by an exception
with_enter(m) == [m EXCEPT !.entered = @ + 1]
with_exit(m) == [m EXCEPT !.exited = @ + 1]

\* the manager after a step of the with block of add that leads to position at:
\* the block is left when add returns or raises
leave(m, at) == IF at = "done" THEN with_exit(m) ELSE m

addLocals == <<image_size, fd_pos, checksum, verifier, reader, put, written_chunks,
               chunk_id, combined_chunks_size, stale_idx, saved_exc>>

\* add up to the upload: the manager is acquired for the location and
\* _create_container_if_missing checks (and may create) the container
AddStart ==
    /\ pc = "add"
    /\ image_size' = args.image_size
    /\ \/ \* head_container answers: the container is there
          /\ container_exists
          /\ pc' = IF need_chunks THEN "loop" ELSE "single"
          /\ hist' = [hist EXCEPT !.container_ok = TRUE]
          /\ UNCHANGED <<container_exists, result>>
       \/ \* 404, and swift_store_create_container_on_put: put_container succeeds
          /\ ~container_exists /\ conf.create_container_on_put
          /\ container_exists' = TRUE
          /\ pc' = IF need_chunks THEN "loop" ELSE "single"
          /\ hist' = [hist EXCEPT !.container_ok = TRUE]
          /\ UNCHANGED result
       \/ \* 404, and put_container fails or the option is off
          /\ ~container_exists
          /\ pc' = "done"
          /\ result' = Raise(BackendException(NOT_FOUND))
          /\ UNCHANGED <<container_exists, hist>>
       \/ \* head_container fails with another client error: raised as it is
          /\ pc' = "done"
          /\ result' = Raise(ServerError)
          /\ UNCHANGED <<container_exists, hist>>
    /\ UNCHANGED <<conf, args, objects, calls, fd_pos, checksum, verifier, reader, put,
                   written_chunks, chunk_id, combined_chunks_size, stale_idx,
                   saved_exc, dlo_manifest, slo_manifest, segments, getVars>>
    /\ manager' = leave(with_enter(get_manager_for_store(need_chunks)), pc')

\* the regular PUT: with a verifier the source is wrapped in a ChunkReader
SingleBegin ==
    /\ pc = "single"
    /\ \/ /\ args.verifier
          /\ reader' = NewChunkReader(data, fd_pos, image_size)
          /\ fd_pos' = fd_pos + Len(reader'.byteone)
          /\ put' = [name |-> args.image_id, content_length |-> image_size,
                     sent |-> <<>>, eof |-> FALSE, contents |-> "reader",
                     kind |-> "single"]
          /\ pc' = "put"
          /\ UNCHANGED <<result, hist>>
       \/ /\ ~args.verifier
          /\ put' = [name |-> args.image_id, content_length |-> image_size,
                     sent |-> <<>>, eof |-> FALSE, contents |-> "file",
                     kind |-> "single"]
          /\ pc' = "put"
          /\ UNCHANGED <<reader, fd_pos, result, hist>>
       \/ \* fd.read(1) of ChunkReader.__init__ raises
          /\ args.verifier
          /\ pc' = "done"
          /\ result' = Raise(Surface(IOError))
          /\ hist' = [hist EXCEPT !.probe_failed = TRUE]
          /\ UNCHANGED <<reader, fd_pos, put>>
    /\ UNCHANGED <<confVars, backendVars, deleteVars, getVars, image_size, checksum, verifier,
                   written_chunks, chunk_id, combined_chunks_size, stale_idx,
                   saved_exc>>
    /\ manager' = leave(manager, pc')

\* top of the while loop, lines 572-589: size the next chunk and probe the source
LoopTop ==
    /\ pc = "loop"
    /\ LET left == image_size - combined_chunks_size
           chunk_size == chunk_size_of(image_size, combined_chunks_size)
           content_length == IF image_size = 0 THEN -1 ELSE chunk_size
           rd == NewChunkReader(data, fd_pos, chunk_size)
       IN  IF image_size # 0 /\ left = 0
           THEN /\ pc' = "manifest"
                /\ UNCHANGED <<reader, fd_pos, put, result, hist>>
           ELSE \/ /\ rd.is_zero_size
                   /\ reader' = rd
                   /\ pc' = "manifest"
                   /\ UNCHANGED <<fd_pos, put, result, hist>>
                \/ /\ ~rd.is_zero_size
                   /\ reader' = rd
                   /\ fd_pos' = fd_pos + Len(rd.byteone)
                   /\ put' = [name |-> chunk_name(args.image_id, chunk_id),
                              content_length |-> content_length, sent |-> <<>>,
                              eof |-> FALSE, contents |-> "reader", kind |-> "chunk"]
                   /\ pc' = "put"
                   /\ UNCHANGED <<result, hist>>
                \/ \* fd.read(1) of ChunkReader.__init__ raises
                   /\ pc' = "done"
                   /\ result' = Raise(Surface(IOError))
                   /\ hist' = [hist EXCEPT !.probe_failed = TRUE]
                   /\ UNCHANGED <<reader, fd_pos, put>>
    /\ UNCHANGED <<confVars, backendVars, deleteVars, getVars, image_size, checksum, verifier,
                   written_chunks, chunk_id, combined_chunks_size, stale_idx,
                   saved_exc>>
    /\ manager' = leave(manager, pc')

\* a read that leaves the verifier out
verifier_update_never(v, bytes) == v

\* ChunkReader.read, lines 1147-1148: if self.verifier: self.verifier.update(result)
verifier_update(v, bytes) == IF args.verifier THEN v \o bytes ELSE v

\* put_object reads the next piece of its contents
PutRead(n) ==
    /\ pc = "put"
    /\ ~BodyDone
    /\ LET size == IF put.content_length >= 0
                   THEN Min(n, put.content_length - Len(put.sent)) ELSE n
           got == IF put.contents = "reader"
                  THEN read(reader, data, fd_pos, size)
                  ELSE [bytes |-> fd_read(data, fd_pos, size),
                        taken |-> Len(fd_read(data, fd_pos, size))]
           chunk == got.bytes
           taken == got.taken
       IN  /\ put' = [put EXCEPT !.sent = @ \o chunk, !.eof = (chunk = <<>>)]
           /\ fd_pos' = fd_pos + taken
           /\ IF put.contents = "reader"
              THEN /\ reader' = [reader EXCEPT !.bytes_read = @ + Len(chunk)]
                   /\ checksum' = checksum \o chunk
                   /\ verifier' = verifier_update(verifier, chunk)
              ELSE UNCHANGED <<reader, checksum, verifier>>
    /\ UNCHANGED <<confVars, backendVars, deleteVars, getVars, pc, image_size, written_chunks,
                   chunk_id, combined_chunks_size, stale_idx, saved_exc, result, hist>>
    /\ manager' = leave(manager, pc')

\* put_object of a chunk succeeds: lines 591-594 and 606-619
PutChunkOk ==
    /\ pc = "put" /\ put.kind = "chunk"
    /\ BodyDone
    /\ objects' = PutObject(objects, put.name, Object(put.sent, <<>>, None))
    /\ calls' = Append(calls, Call("put", put.name, NoExc, Len(put.sent), ""))
    /\ written_chunks' = Append(written_chunks, put.name)
    /\ chunk_id' = chunk_id + 1
    /\ combined_chunks_size' = combined_chunks_size + reader.bytes_read
    /\ put' = NoPut
    /\ pc' = "loop"
    /\ UNCHANGED <<confVars, container_exists, deleteVars, getVars, image_size, fd_pos, checksum,
                   verifier, reader, stale_idx, saved_exc, result, hist>>
    /\ manager' = leave(manager, pc')

\* put_object of a chunk raises (the backend, or the source while it is read):
\* the handler of lines 595-604 starts _delete_stale_chunks
PutChunkFail(e) ==
    /\ pc = "put" /\ put.kind = "chunk"
    /\ e \in PutFaults \/ (e = IOError /\ ~BodyDone)
    /\ calls' = Append(calls, Call("put", put.name, e, Len(put.sent), ""))
    /\ saved_exc' = e
    /\ stale_idx' = 1
    /\ put' = NoPut
    /\ pc' = "stale"
    /\ UNCHANGED <<confVars, container_exists, objects, deleteVars, getVars, image_size, fd_pos,
                   checksum, verifier, reader, written_chunks, chunk_id,
                   combined_chunks_size, result, hist>>
    /\ manager' = leave(manager, pc')

\* a _delete_stale_chunks that gives up at the first delete that fails
DeleteStaleChunkGivesUp(fault) ==
    /\ pc = "stale"
    /\ stale_idx <= Len(written_chunks)
    /\ LET chunk == written_chunks[stale_idx]
           exc == IF fault # NoExc THEN fault
                  ELSE IF chunk \in DOMAIN objects THEN NoExc
                  ELSE ClientException(NOT_FOUND)
       IN  /\ calls' = Append(calls, Call("delete", chunk, exc, 0, ""))
           /\ objects' = IF exc = NoExc THEN DeleteObject(objects, chunk) ELSE objects
           /\ stale_idx' = IF exc = NoExc THEN stale_idx + 1
                           ELSE Len(written_chunks) + 1
    /\ UNCHANGED <<confVars, container_exists, deleteVars, getVars, pc, image_size, fd_pos,
                   checksum, verifier, reader, put, written_chunks, chunk_id,
                   combined_chunks_size, saved_exc, result, hist>>
    /\ manager' = leave(manager, pc')

\* one turn of the loop of _delete_stale_chunks: every exception is swallowed
DeleteStaleChunk(fault) ==
    /\ pc = "stale"
    /\ stale_idx <= Len(written_chunks)
    /\ LET chunk == written_chunks[stale_idx]
           exc == IF fault # NoExc THEN fault
                  ELSE IF chunk \in DOMAIN objects THEN NoExc
                  ELSE ClientException(NOT_FOUND)
       IN  /\ calls' = Append(calls, Call("delete", chunk, exc, 0, ""))
           /\ objects' = IF exc = NoExc THEN DeleteObject(objects, chunk) ELSE objects
    /\ stale_idx' = stale_idx + 1
    /\ UNCHANGED <<confVars, container_exists, deleteVars, getVars, pc, image_size, fd_pos,
                   checksum, verifier, reader, put, written_chunks, chunk_id,
                   combined_chunks_size, saved_exc, result, hist>>
    /\ manager' = leave(manager, pc')

\* a re-raise that lets a failure of the cleanup replace the saved exception
ReRaiseCleanupError ==
    /\ pc = "stale"
    /\ stale_idx > Len(written_chunks)
    /\ result' = Raise(Surface(IF calls[Len(calls)].op = "delete"
                                   /\ calls[Len(calls)].exc # NoExc
                               THEN calls[Len(calls)].exc ELSE saved_exc))
    /\ pc' = "done"
    /\ UNCHANGED <<confVars, backendVars, deleteVars, getVars, addLocals, hist>>
    /\ manager' = leave(manager, pc')

\* save_and_reraise_exception re-raises, and the handler of lines 653-662 maps
ReRaise ==
    /\ pc = "stale"
    /\ stale_idx > Len(written_chunks)
    /\ result' = Raise(Surface(saved_exc))
    /\ pc' = "done"
    /\ UNCHANGED <<confVars, backendVars, deleteVars, getVars, addLocals, hist>>
    /\ manager' = leave(manager, pc')

\* the regular PUT succeeds: its etag is the checksum returned
PutSingleOk ==
    /\ pc = "put" /\ put.kind = "single"
    /\ BodyDone
    /\ objects' = PutObject(objects, put.name, Object(put.sent, <<>>, None))
    /\ calls' = Append(calls, Call("put", put.name, NoExc, Len(put.sent), ""))
    /\ result' = Return(image_size, md5(put.sent))
    /\ put' = NoPut
    /\ pc' = "done"
    /\ UNCHANGED <<confVars, container_exists, deleteVars, getVars, image_size, fd_pos, checksum,
                   verifier, reader, written_chunks, chunk_id, combined_chunks_size,
                   stale_idx, saved_exc, hist>>
    /\ manager' = leave(manager, pc')

\* the regular PUT raises
PutSingleFail(e) ==
    /\ pc = "put" /\ put.kind = "single"
    /\ e \in PutFaults \/ (e = IOError /\ ~BodyDone)
    /\ calls' = Append(calls, Call("put", put.name, e, Len(put.sent), ""))
    /\ result' = Raise(Surface(e))
    /\ put' = NoPut
    /\ pc' = "done"
    /\ UNCHANGED <<confVars, container_exists, objects, deleteVars, getVars, image_size, fd_pos,
                   checksum, verifier, reader, written_chunks, chunk_id,
                   combined_chunks_size, stale_idx, saved_exc, hist>>
    /\ manager' = leave(manager, pc')

\* after the loop, lines 621-652: the manifest is written at the primary name
WriteManifest(fault) ==
    /\ pc = "manifest"
    /\ image_size' = final_size(image_size, combined_chunks_size)
    /\ calls' = Append(calls, Call("put", args.image_id, fault, 0, "X-Object-Manifest"))
    /\ IF fault = NoExc
       THEN /\ objects' = PutObject(objects, args.image_id,
                                Object(<<>>, manifest_header(args.image_id), None))
            /\ result' = Return(image_size', md5(checksum))
       ELSE /\ result' = Raise(Surface(fault))
            /\ UNCHANGED objects
    /\ pc' = "done"
    /\ UNCHANGED <<confVars, container_exists, deleteVars, getVars, fd_pos, checksum, verifier,
                   reader, put, written_chunks, chunk_id, combined_chunks_size,
                   stale_idx, saved_exc, hist>>
    /\ manager' = leave(manager, pc')

\* no response stream
NoStream == [pos |-> 0, open |-> FALSE]

NoHist == [container_ok |-> FALSE, probe_failed |-> FALSE, listed |-> <<>>,
           objects0 |-> NoObjects, readd |-> FALSE]

AddArgs ==
    [op : {"add"}, image_id : Identifiers, data_len : 0..MaxSrc,
     image_size : 0..MaxSize, verifier : BOOLEAN]

\* the classes of store that get_manager_for_store knows
StoreClasses == {"SingleTenantStore", "MultiTenantStore"}

\* a single-tenant store
SingleTenant(c) == c.store_class = "SingleTenantStore" /\ c.swift_store_use_trusts

StoreConfigurations ==
    [large_object_size : 1..MaxThreshold, large_object_chunk_size : 1..MaxChunk,
     create_container_on_put : BOOLEAN, store_class : StoreClasses,
     swift_store_use_trusts : BOOLEAN]

Configurations == { c \in StoreConfigurations : SingleTenant(c) }

InitLocals ==
    /\ calls = <<>>
    /\ image_size = 0
    /\ fd_pos = 0
    /\ checksum = <<>>
    /\ verifier = <<>>
    /\ reader = NoReader
    /\ put = NoPut
    /\ written_chunks = <<>>
    /\ chunk_id = 1
    /\ combined_chunks_size = 0
    /\ stale_idx = 0
    /\ saved_exc = NoExc
    /\ dlo_manifest = <<>>
    /\ slo_manifest = None
    /\ segments = <<>>
    /\ resp_iter = NoStream
    /\ length = 0
    /\ retries = 0
    /\ bytes_read = 0
    /\ wrapped = FALSE
    /\ yielded = <<>>
    /\ streams = <<>>
    /\ result = NoResult
    /\ manager = NoManager
    /\ hist = [NoHist EXCEPT !.objects0 = objects]

InitAdd ==
    /\ conf \in Configurations
    /\ container_exists \in BOOLEAN
    /\ objects = NoObjects
    /\ args \in AddArgs
    /\ pc = "add"
    /\ InitLocals

NextAdd ==
    \/ AddStart
    \/ SingleBegin
    \/ LoopTop
    \/ \E n \in 1..MaxRead : PutRead(n)
    \/ PutChunkOk
    \/ \E e \in PutFaults \cup {IOError} : PutChunkFail(e)
    \/ \E f \in DeleteFaults \cup {NoExc} : DeleteStaleChunk(f)
    \/ ReRaise
    \/ PutSingleOk
    \/ \E e \in PutFaults \cup {IOError} : PutSingleFail(e)
    \/ \E f \in PutFaults \cup {NoExc} : WriteManifest(f)

SpecAdd == InitAdd /\ [][NextAdd]_vars

\* the steps add takes by itself when no call fails: the program keeps running
\* and every call of put_object keeps reading its contents until it is done
AddProgress ==
    \/ AddStart
    \/ SingleBegin
    \/ LoopTop
    \/ \E n \in 1..MaxRead : PutRead(n)
    \/ PutChunkOk
    \/ DeleteStaleChunk(NoExc)
    \/ ReRaise
    \/ PutSingleOk
    \/ WriteManifest(NoExc)

SpecAddFair == SpecAdd /\ WF_vars(AddProgress)

\* the adds of one identifier to a container that is there, without verifier,
\* the declared size being the size of the source
ReAddArgs ==
    { a \in AddArgs : /\ a.image_id = <<"a">> /\ ~a.verifier
                      /\ a.image_size = a.data_len /\ a.data_len >= 1 }

\* after an add that returned, add is called again for the same identifier:
\* the container is as the first add left it
AddAgain(a) ==
    /\ pc = "done" /\ args.op = "add" /\ result.kind = "return"
    /\ ~hist.readd
    /\ a.image_id = args.image_id
    /\ args' = a
    /\ pc' = "add"
    /\ calls' = <<>>
    /\ image_size' = 0
    /\ fd_pos' = 0
    /\ checksum' = <<>>
    /\ verifier' = <<>>
    /\ reader' = NoReader
    /\ put' = NoPut
    /\ written_chunks' = <<>>
    /\ chunk_id' = 1
    /\ combined_chunks_size' = 0
    /\ stale_idx' = 0
    /\ saved_exc' = NoExc
    /\ result' = NoResult
    /\ hist' = [NoHist EXCEPT !.objects0 = objects, !.readd = TRUE]
    /\ UNCHANGED <<conf, container_exists, objects, deleteVars, getVars>>
    /\ manager' = NoManager

InitReAdd ==
    /\ conf \in { c \in Configurations : ~c.create_container_on_put }
    /\ container_exists = TRUE
    /\ objects = NoObjects
    /\ args \in ReAddArgs
    /\ pc = "add"
    /\ InitLocals

NextReAdd ==
    \/ NextAdd
    \/ \E a \in ReAddArgs : AddAgain(a)

SpecReAdd == InitReAdd /\ [][NextReAdd]_vars

----------------------------------------------------------------------------
(* BaseStore.delete *)

\* str.lower() on the header values of the model
Lower(v) == CASE v = "True" -> "true" [] v = "TRUE" -> "true" [] OTHER -> v

\* an _is_slo that compares without lower()
_is_slo_case_sensitive(slo_header) == slo_header # None /\ slo_header = "true"

\* _is_slo(slo_header); an absent header is None
_is_slo(slo_header) == slo_header # None /\ Lower(slo_header) = "true"

\* the order of the characters of the names (ASCII)
CharRank(c) ==
    CASE c = "-" -> 45 [] c = "/" -> 47 [] c = "0" -> 48 [] c = "1" -> 49
      [] c = "2" -> 50 [] c = "3" -> 51 [] c = "4" -> 52 [] c = "5" -> 53
      [] c = "6" -> 54 [] c = "7" -> 55 [] c = "8" -> 56 [] c = "9" -> 57
      [] c = "_" -> 95 [] c = "a" -> 97 [] c = "b" -> 98 [] c = "g" -> 103

RECURSIVE NameLess(_, _)
NameLess(x, y) ==
    IF x = <<>> THEN y # <<>>
    ELSE IF y = <<>> THEN FALSE
    ELSE IF Head(x) # Head(y) THEN CharRank(Head(x)) < CharRank(Head(y))
    ELSE NameLess(Tail(x), Tail(y))

HasPrefix(name, prefix) ==
    Len(name) >= Len(prefix) /\ SubSeq(name, 1, Len(prefix)) = prefix

\* dlo_manifest.split('/', 1)
SplitIndex(m) == CHOOSE i \in 1..Len(m) :
                    m[i] = "/" /\ \A j \in 1..(i - 1) : m[j] # "/"
obj_prefix(m) == SubSeq(m, SplitIndex(m) + 1, Len(m))

\* get_container(container, prefix=prefix)[1]: the names under the prefix, in
\* the order of the names
RECURSIVE Sorted(_)
Sorted(S) ==
    IF S = {} THEN <<>>
    ELSE LET first == CHOOSE x \in S : \A y \in S \ {x} : NameLess(x, y)
         IN  <<first>> \o Sorted(S \ {first})

Listing(objs, prefix) == Sorted({n \in DOMAIN objs : HasPrefix(n, prefix)})

\* what a call on an object raises: the injected fault, or 404 when it is missing
ObjectExc(objs, name, fault) ==
    IF fault # NoExc THEN fault
    ELSE IF name \in DOMAIN objs THEN NoExc
    ELSE ClientException(NOT_FOUND)

\* a handler that maps nothing
DeleteSurfaceRaw(e) == e

\* the handler at the end of delete: except swiftclient.ClientException
DeleteSurface(e) ==
    IF e.type = "ClientException" /\ e.http_status = NOT_FOUND THEN NotFound ELSE e

\* head_object of the primary name, lines 675-684, and the choice of the branch
DeleteHead(fault) ==
    /\ pc = "delete"
    /\ LET exc == ObjectExc(objects, args.image_id, fault)
           found == exc = NoExc
           missing == exc.type = "ClientException" /\ exc.http_status = NOT_FOUND
           dlo == IF found THEN objects[args.image_id].x_object_manifest ELSE <<>>
           slo == IF found THEN objects[args.image_id].x_static_large_object ELSE None
       IN  /\ calls' = Append(calls, Call("head", args.image_id, exc, 0, ""))
           /\ dlo_manifest' = dlo
           /\ slo_manifest' = slo
           /\ IF found \/ missing
              THEN /\ pc' = IF _is_slo(slo) THEN "slo"
                            ELSE IF dlo # <<>> THEN "list" ELSE "primary"
                   /\ UNCHANGED result
              ELSE /\ pc' = "done"
                   /\ result' = Raise(DeleteSurface(exc))
    /\ UNCHANGED <<confVars, container_exists, objects, addLocals, getVars, segments, hist>>
    /\ UNCHANGED manager

\* static large object, lines 686-691: one delete with multipart-manifest=delete
DeleteSLO(fault) ==
    /\ pc = "slo"
    /\ LET exc == ObjectExc(objects, args.image_id, fault)
       IN  /\ calls' = Append(calls, Call("delete", args.image_id, exc, 0,
                                          "multipart-manifest=delete"))
           /\ objects' = IF exc = NoExc THEN DeleteObject(objects, args.image_id) ELSE objects
           /\ result' = IF exc = NoExc THEN Return(0, 0) ELSE Raise(DeleteSurface(exc))
    /\ pc' = "done"
    /\ UNCHANGED <<confVars, container_exists, addLocals, deleteVars, getVars, hist>>
    /\ UNCHANGED manager

\* dynamic large object, lines 693-697: list the segments under the prefix
DeleteList(fault) ==
    /\ pc = "list"
    /\ LET prefix == obj_prefix(dlo_manifest)
           listing == Listing(objects, prefix)
       IN  /\ calls' = Append(calls, Call("list", prefix, fault, Len(listing), ""))
           /\ IF fault = NoExc
              THEN /\ segments' = listing
                   /\ hist' = [hist EXCEPT !.listed = listing]
                   /\ pc' = IF listing = <<>> THEN "primary" ELSE "segments"
                   /\ UNCHANGED result
              ELSE /\ pc' = "done"
                   /\ result' = Raise(DeleteSurface(fault))
                   /\ UNCHANGED <<segments, hist>>
    /\ UNCHANGED <<confVars, container_exists, objects, addLocals, getVars, dlo_manifest,
                   slo_manifest>>
    /\ UNCHANGED manager

\* a loop that a failed segment delete leaves
DeleteSegmentGivesUp(fault) ==
    /\ pc = "segments"
    /\ LET name == Head(segments)
           exc == ObjectExc(objects, name, fault)
       IN  /\ calls' = Append(calls, Call("delete", name, exc, 0, ""))
           /\ objects' = IF exc = NoExc THEN DeleteObject(objects, name) ELSE objects
           /\ IF exc = NoExc
              THEN /\ segments' = Tail(segments)
                   /\ pc' = IF Tail(segments) = <<>> THEN "primary" ELSE "segments"
                   /\ UNCHANGED result
              ELSE /\ pc' = "done"
                   /\ result' = Raise(DeleteSurface(exc))
                   /\ UNCHANGED segments
    /\ UNCHANGED <<confVars, container_exists, addLocals, getVars, dlo_manifest, slo_manifest,
                   hist>>
    /\ UNCHANGED manager

\* one turn of the loop of lines 698-709: a ClientException is logged, any
\* other exception leaves delete
DeleteSegment(fault) ==
    /\ pc = "segments"
    /\ LET name == Head(segments)
           exc == ObjectExc(objects, name, fault)
       IN  /\ calls' = Append(calls, Call("delete", name, exc, 0, ""))
           /\ objects' = IF exc = NoExc THEN DeleteObject(objects, name) ELSE objects
           /\ IF exc = NoExc \/ exc.type = "ClientException"
              THEN /\ segments' = Tail(segments)
                   /\ pc' = IF Tail(segments) = <<>> THEN "primary" ELSE "segments"
                   /\ UNCHANGED result
              ELSE /\ pc' = "done"
                   /\ result' = Raise(DeleteSurface(exc))
                   /\ UNCHANGED segments
    /\ UNCHANGED <<confVars, container_exists, addLocals, getVars, dlo_manifest, slo_manifest,
                   hist>>
    /\ UNCHANGED manager

\* line 712: delete the object (or, in the segmented case, the manifest)
DeletePrimary(fault) ==
    /\ pc = "primary"
    /\ LET exc == ObjectExc(objects, args.image_id, fault)
       IN  /\ calls' = Append(calls, Call("delete", args.image_id, exc, 0, ""))
           /\ objects' = IF exc = NoExc THEN DeleteObject(objects, args.image_id) ELSE objects
           /\ result' = IF exc = NoExc THEN Return(0, 0) ELSE Raise(DeleteSurface(exc))
    /\ pc' = "done"
    /\ UNCHANGED <<confVars, container_exists, addLocals, deleteVars, getVars, hist>>
    /\ UNCHANGED manager

\* the names of the container at the start of a delete: the primary objects
\* and the first segments of the identifiers
SegmentNames == { chunk_name(id, k) : id \in Identifiers, k \in 1..MaxSegments }

\* the headers a primary object may carry
ManifestHeaders == {<<>>} \cup { manifest_header(id) : id \in Identifiers }
SloHeaders == {None, "true", "True", "false"}


DeleteArgs ==
    [op : {"delete"}, image_id : Identifiers, data_len : {0}, image_size : {0},
     verifier : {FALSE}]

InitDelete ==
    /\ conf \in { c \in Configurations :
                    /\ c.large_object_size = 1 /\ c.large_object_chunk_size = 1
                    /\ ~c.create_container_on_put }
    /\ container_exists = TRUE
    /\ args \in DeleteArgs
    /\ \E segs \in SUBSET SegmentNames, prim \in SUBSET Identifiers,
          m \in ManifestHeaders, slo \in SloHeaders :
          objects = [n \in segs \cup prim |->
                       IF n = args.image_id THEN Object(<<>>, m, slo)
                       ELSE Object(<<>>, <<>>, None)]
    /\ pc = "delete"
    /\ InitLocals

NextDelete ==
    \/ \E f \in DeleteFaults \cup {NoExc} : DeleteHead(f)
    \/ \E f \in DeleteFaults \cup {NoExc} : DeleteSLO(f)
    \/ \E f \in DeleteFaults \cup {NoExc} : DeleteList(f)
    \/ \E f \in DeleteFaults \cup {NoExc} : DeleteSegment(f)
    \/ \E f \in DeleteFaults \cup {NoExc} : DeletePrimary(f)

SpecDelete == InitDelete /\ [][NextDelete]_vars

----------------------------------------------------------------------------
(* BaseStore.add, then BaseStore.delete of the location add returned *)

\* add has returned: delete is called on the location of the same identifier
DeleteAfterAdd ==
    /\ pc = "done" /\ args.op = "add" /\ result.kind = "return"
    /\ args' = [args EXCEPT !.op = "delete"]
    /\ pc' = "delete"
    /\ calls' = <<>>
    /\ result' = NoResult
    /\ hist' = [NoHist EXCEPT !.objects0 = objects]
    /\ UNCHANGED <<conf, container_exists, objects, addLocals, deleteVars, getVars,
                   manager>>

\* add never writes a static manifest, so delete never takes its branch
SpecRoundTrip ==
    InitAdd /\ [][ \/ NextAdd
                   \/ DeleteAfterAdd
                   \/ \E f \in DeleteFaults \cup {NoExc} : DeleteHead(f)
                   \/ \E f \in DeleteFaults \cup {NoExc} : DeleteList(f)
                   \/ \E f \in DeleteFaults \cup {NoExc} : DeleteSegment(f)
                   \/ \E f \in DeleteFaults \cup {NoExc} : DeletePrimary(f) ]_vars

----------------------------------------------------------------------------
(* BaseStore.get, BaseStore._get_object and swift_retry_iter *)

\* the body of the object at the location
body == IF args.image_id \in DOMAIN objects THEN objects[args.image_id].body ELSE <<>>

\* a range with an upper bound
bytes_range_bounded(start) == <<"bytes=">> \o Digits(start) \o <<"-">> \o Digits(start)

\* 'bytes=%d-' % start
bytes_range(start) == <<"bytes=">> \o Digits(start) \o <<"-">>

\* what get_object may raise whatever the state of the backend
GetFaults == {ClientException(NOT_FOUND), ServerError, SocketError}

\* what a response stream may raise while it is iterated
StreamFaults == {ServerError, SocketError}

\* a _get_object that raises what the backend raised
get_object_surface_raw(e) == e

\* _get_object, lines 458-463: a 404 becomes NotFound, the rest is raised as it is
get_object_surface(e) ==
    IF e.type = "ClientException" /\ e.http_status = NOT_FOUND THEN NotFound ELSE e

\* a stream over the body that starts at offset start
stream_at(start) == [pos |-> Min(start, Len(body)), open |-> TRUE]

\* one stream of the history: where it started and how it ended
StreamEntry(offset, outcome) == [offset |-> offset, outcome |-> outcome]

\* the last stream of the history ends with this outcome
Close(ss, outcome) == [ss EXCEPT ![Len(ss)].outcome = outcome]

\* get, lines 472-473
allow_retry == conf.swift_store_retry_get_count > 0

\* get, lines 468-490: the first _get_object, and the stream handed back
GetStart(fault) ==
    /\ pc = "get"
    /\ LET exc == ObjectExc(objects, args.image_id, fault)
       IN  /\ calls' = Append(calls, Call("get", args.image_id, exc, 0, <<>>))
           /\ IF exc = NoExc
              THEN /\ resp_iter' = stream_at(0)
                   /\ streams' = <<StreamEntry(0, "open")>>
                   /\ length' = Len(body)
                   /\ wrapped' = allow_retry
                   /\ pc' = IF allow_retry THEN "swift_retry_iter" ELSE "iter"
                   /\ UNCHANGED result
              ELSE /\ result' = Raise(get_object_surface(exc))
                   /\ pc' = "done"
                   /\ UNCHANGED <<resp_iter, streams, length, wrapped>>
    /\ UNCHANGED <<confVars, container_exists, objects, addLocals, deleteVars, retries,
                   bytes_read, yielded, hist>>
    /\ manager' = with_exit(connection_asked(with_enter(get_manager_for_store(allow_retry))))

\* swift_retry_iter is called on a stream over the object, with a declared length
IterCall ==
    /\ pc = "call"
    /\ resp_iter' = stream_at(0)
    /\ streams' = <<StreamEntry(0, "open")>>
    /\ length' = args.length
    /\ wrapped' = TRUE
    /\ pc' = "swift_retry_iter"
    /\ UNCHANGED <<confVars, backendVars, addLocals, deleteVars, retries, bytes_read,
                   yielded, result, hist>>
    /\ UNCHANGED manager

\* lines 148-161: an unknown length is taken from the stream when it has one
effective_length(len) ==
    IF len # 0 THEN len ELSE IF args.has_len THEN Len(body) ELSE 0

\* lines 148-163: the first next() of the generator runs up to the loop
IterStart ==
    /\ pc = "swift_retry_iter"
    /\ length' = effective_length(length)
    /\ retries' = 0
    /\ bytes_read' = 0
    /\ pc' = "iter"
    /\ UNCHANGED <<confVars, backendVars, addLocals, deleteVars, resp_iter, wrapped,
                   yielded, streams, result, hist>>
    /\ UNCHANGED manager

\* lines 167-169: the stream hands out a chunk of n bytes, the consumer gets it
StreamChunk(n) ==
    /\ pc = "iter"
    /\ resp_iter.open
    /\ resp_iter.pos + n <= Len(body)
    /\ yielded' = yielded \o SubSeq(body, resp_iter.pos + 1, resp_iter.pos + n)
    /\ bytes_read' = IF wrapped THEN bytes_read + n ELSE bytes_read
    /\ resp_iter' = [resp_iter EXCEPT !.pos = @ + n]
    /\ UNCHANGED <<confVars, backendVars, addLocals, deleteVars, pc, length, retries,
                   wrapped, streams, result, hist>>
    /\ UNCHANGED manager

\* the stream is exhausted, at the end of the body or before it
StreamEnd ==
    /\ pc = "iter"
    /\ resp_iter.open
    /\ resp_iter' = [resp_iter EXCEPT !.open = FALSE]
    /\ streams' = Close(streams, IF resp_iter.pos = Len(body) THEN "end" ELSE "short")
    /\ IF wrapped
       THEN pc' = "check" /\ UNCHANGED result
       ELSE pc' = "done" /\ result' = Return(Len(yielded), 0)
    /\ UNCHANGED <<confVars, backendVars, addLocals, deleteVars, length, retries,
                   bytes_read, wrapped, yielded, hist>>
    /\ UNCHANGED manager

\* a generator without the handler of line 170
caught_never(e) == FALSE

\* line 170: except swiftclient.ClientException, inside swift_retry_iter only
caught(e) == wrapped /\ e.type = "ClientException"

\* the stream raises while it is iterated
StreamFail(e) ==
    /\ pc = "iter"
    /\ resp_iter.open
    /\ resp_iter' = [resp_iter EXCEPT !.open = FALSE]
    /\ streams' = Close(streams, IF e.type = "ClientException" THEN "client_error"
                                 ELSE "error")
    /\ IF caught(e)
       THEN pc' = "check" /\ UNCHANGED result
       ELSE pc' = "done" /\ result' = Raise(e)
    /\ UNCHANGED <<confVars, backendVars, addLocals, deleteVars, length, retries,
                   bytes_read, wrapped, yielded, hist>>
    /\ UNCHANGED manager

\* a test of the budget that allows one retry more
retry_limit_reached_late == retries = conf.swift_store_retry_get_count + 1

\* line 176
retry_limit_reached == retries = conf.swift_store_retry_get_count

\* a test that sees a short download only after an error of the stream
incomplete_after_error ==
    bytes_read # length /\ streams[Len(streams)].outcome = "client_error"

\* line 175
incomplete == bytes_read # length

\* line 165: the condition of the while loop
loop_continues(r) == r <= conf.swift_store_retry_get_count

\* a retry that starts one byte back
resume_offset_behind == IF bytes_read > 0 THEN bytes_read - 1 ELSE bytes_read

\* line 194: the start handed to _get_object
resume_offset == bytes_read

\* lines 175-196, after the for loop: stop, or retry with _get_object at bytes_read
IterCheck(fault) ==
    /\ pc = "check"
    /\ IF incomplete /\ ~retry_limit_reached
       THEN LET exc == ObjectExc(objects, args.image_id, fault)
            IN  /\ retries' = retries + 1
                /\ calls' = Append(calls, Call("get", args.image_id, exc, Len(yielded),
                                                bytes_range(resume_offset)))
                /\ IF exc = NoExc
                   THEN /\ resp_iter' = stream_at(resume_offset)
                        /\ streams' = Append(streams, StreamEntry(resume_offset, "open"))
                        /\ IF loop_continues(retries + 1)
                           THEN pc' = "iter" /\ UNCHANGED result
                           ELSE pc' = "done" /\ result' = Return(Len(yielded), 0)
                   ELSE /\ result' = Raise(get_object_surface(exc))
                        /\ pc' = "done"
                        /\ UNCHANGED <<resp_iter, streams>>
       ELSE /\ fault = NoExc
            /\ result' = Return(Len(yielded), 0)
            /\ pc' = "done"
            /\ UNCHANGED <<calls, retries, resp_iter, streams>>
    /\ UNCHANGED <<confVars, container_exists, objects, addLocals, deleteVars, length,
                   bytes_read, wrapped, yielded, hist>>
    /\ manager' = IF incomplete /\ ~retry_limit_reached
                  THEN connection_asked(manager) ELSE manager

GetStoreConfigurations ==
    [swift_store_retry_get_count : 0..MaxRetries, store_class : StoreClasses,
     swift_store_use_trusts : BOOLEAN]

GetConfigurations == { c \in GetStoreConfigurations : SingleTenant(c) }

GetArgs ==
    [op : {"get"}, image_id : {<<"a">>}, length : {0}, has_len : BOOLEAN]
    \cup [op : {"swift_retry_iter"}, image_id : {<<"a">>}, length : 0..MaxObj,
          has_len : BOOLEAN]

InitGet ==
    /\ conf \in GetConfigurations
    /\ container_exists = TRUE
    /\ args \in GetArgs
    /\ \E len \in 0..MaxObj, present \in BOOLEAN :
          /\ args.length \in {0, len}
          /\ args.op = "swift_retry_iter" => present
          /\ objects = IF present
                       THEN [n \in {args.image_id} |-> Object(SourceData(len), <<>>, None)]
                       ELSE NoObjects
    /\ pc = IF args.op = "get" THEN "get" ELSE "call"
    /\ InitLocals

NextGet ==
    \/ \E f \in GetFaults \cup {NoExc} : GetStart(f)
    \/ IterCall
    \/ IterStart
    \/ \E n \in 1..MaxGetChunk : StreamChunk(n)
    \/ StreamEnd
    \/ \E e \in StreamFaults : StreamFail(e)
    \/ \E f \in GetFaults \cup {NoExc} : IterCheck(f)

SpecGet == InitGet /\ [][NextGet]_vars

\* every step that can be taken is taken in the end: the consumer keeps
\* iterating and every backend call is answered
SpecGetFair == SpecGet /\ WF_vars(NextGet)

----------------------------------------------------------------------------
(* ChunkReader used on its own: any budget, any sequence of read sizes *)

ReaderArgs ==
    { a \in [op : {"reader"}, image_id : {<<"a">>}, data_len : 0..MaxSrc,
             start : 0..MaxSrc, total : 0..MaxSize, verifier : BOOLEAN] :
        a.start <= a.data_len }

\* ChunkReader(fd, checksum, total, verifier) on a source at position start
ReaderNew ==
    /\ pc = "reader"
    /\ reader' = NewChunkReader(data, args.start, args.total)
    /\ fd_pos' = args.start + Len(reader'.byteone)
    /\ pc' = "reading"
    /\ UNCHANGED <<confVars, backendVars, deleteVars, getVars, image_size, checksum,
                   verifier, put, written_chunks, chunk_id, combined_chunks_size,
                   stale_idx, saved_exc, result, hist>>
    /\ UNCHANGED manager

\* reader.read(n): the call is logged with the size asked and the length returned
ReaderRead(n) ==
    /\ pc = "reading"
    /\ Len(calls) < MaxReads
    /\ LET got == read(reader, data, fd_pos, n)
       IN  /\ reader' = [reader EXCEPT !.bytes_read = @ + Len(got.bytes)]
           /\ checksum' = checksum \o got.bytes
           /\ verifier' = verifier_update(verifier, got.bytes)
           /\ fd_pos' = fd_pos + got.taken
           /\ calls' = Append(calls, Call("read", <<>>, NoExc, Len(got.bytes), n))
    /\ UNCHANGED <<confVars, container_exists, objects, deleteVars, getVars, pc,
                   image_size, put, written_chunks, chunk_id, combined_chunks_size,
                   stale_idx, saved_exc, result, hist>>
    /\ UNCHANGED manager

\* a reader on its own, or the readers add builds
InitReader ==
    \/ /\ conf \in { c \in Configurations :
                        /\ c.large_object_size = 1 /\ c.large_object_chunk_size = 1
                        /\ ~c.create_container_on_put }
       /\ container_exists = TRUE
       /\ objects = NoObjects
       /\ args \in ReaderArgs
       /\ pc = "reader"
       /\ InitLocals
    \/ InitAdd

NextReader ==
    \/ ReaderNew
    \/ \E n \in 0..MaxRead : ReaderRead(n)
    \/ NextAdd

SpecReader == InitReader /\ [][NextReader]_vars

----------------------------------------------------------------------------
(* BaseStore.get_size, after an add *)

RECURSIVE SumLens(_, _)
SumLens(objs, S) ==
    IF S = {} THEN 0
    ELSE LET n == CHOOSE x \in S : TRUE
         IN  Len(objs[n].body) + SumLens(objs, S \ {n})

\* the content-length the backend answers to head_object: for a manifest, the
\* length of the segments under its prefix, else the length of the body
content_length(objs, name) ==
    IF objs[name].x_object_manifest # <<>>
    THEN SumLens(objs, { n \in DOMAIN objs :
                           HasPrefix(n, obj_prefix(objs[name].x_object_manifest)) })
    ELSE Len(objs[name].body)

\* a get_size that answers 0 whatever the backend says
get_size_zero(exc, len) == 0

\* a get_size that answers -1 when the request failed
get_size_minus_one(exc, len) == IF exc = NoExc THEN len ELSE 0 - 1

\* lines 496-501: int(resp_headers.get('content-length', 0)), 0 on any exception
get_size(exc, len) == IF exc = NoExc THEN len ELSE 0

\* get_size on the location that add returned
GetSize(fault) ==
    /\ pc = "done" /\ args.op = "add" /\ result.kind = "return"
    /\ LET exc == ObjectExc(objects, args.image_id, fault)
           len == IF exc = NoExc THEN content_length(objects, args.image_id) ELSE 0
       IN  /\ calls' = Append(calls, Call("head", args.image_id, exc, 0, ""))
           /\ result' = Return(get_size(exc, len), 0)
    /\ pc' = "size_done"
    /\ UNCHANGED <<confVars, container_exists, objects, addLocals, deleteVars, getVars,
                   hist>>
    /\ UNCHANGED manager

\* the scenario: threshold 5 and segment size 4, in units of one MB; the
\* identifier img-1; a source of 10 units declared as 10, or of 3 declared as 3
InitEndToEnd ==
    /\ conf = [large_object_size |-> 5, large_object_chunk_size |-> 4,
               create_container_on_put |-> FALSE,
               store_class |-> "SingleTenantStore", swift_store_use_trusts |-> TRUE]
    /\ container_exists = TRUE
    /\ objects = NoObjects
    /\ args \in { a \in [op : {"add"}, image_id : {<<"i", "m", "g", "-", "1">>},
                         data_len : {3, 10}, image_size : {3, 10},
                         verifier : BOOLEAN] : a.data_len = a.image_size }
    /\ pc = "add"
    /\ InitLocals

NextEndToEnd ==
    \/ NextAdd
    \/ \E f \in DeleteFaults \cup {NoExc} : GetSize(f)

SpecEndToEnd == InitEndToEnd /\ [][NextEndToEnd]_vars

----------------------------------------------------------------------------
(* BaseStore.get_size on any location *)

\* lines 492-501: head_object of the primary name; any exception gives 0
GetSizeCall(fault) ==
    /\ pc = "get_size"
    /\ LET exc == ObjectExc(objects, args.image_id, fault)
           len == IF exc = NoExc THEN content_length(objects, args.image_id) ELSE 0
       IN  /\ calls' = Append(calls, Call("head", args.image_id, exc, len, ""))
           /\ result' = Return(get_size(exc, len), 0)
    /\ pc' = "size_done"
    /\ UNCHANGED <<confVars, container_exists, objects, addLocals, deleteVars, getVars,
                   manager, hist>>

\* the container holds any of the primary objects and segments; the object at
\* the location, when it is there, has a body of any length and may be a manifest
InitGetSize ==
    /\ conf \in { c \in Configurations :
                    /\ c.large_object_size = 1 /\ c.large_object_chunk_size = 1
                    /\ ~c.create_container_on_put }
    /\ container_exists = TRUE
    /\ args \in [op : {"get_size"}, image_id : Identifiers, data_len : {0},
                  image_size : {0}, verifier : {FALSE}]
    /\ \E segs \in SUBSET SegmentNames, prim \in SUBSET Identifiers,
          m \in ManifestHeaders, len \in 0..MaxObj :
          objects = [n \in segs \cup prim |->
                       IF n = args.image_id THEN Object(SourceData(len), m, None)
                       ELSE Object(SourceData(1), <<>>, None)]
    /\ pc = "get_size"
    /\ InitLocals

SpecGetSize == InitGetSize /\ [][\E f \in GetFaults \cup {NoExc} : GetSizeCall(f)]_vars

----------------------------------------------------------------------------
(* The BOSS driver (glance_store/_drivers/boss.py): Store.add, Store.delete *)

\* the errors of a call that cannot be made
AttributeError == [type |-> "AttributeError", http_status |-> 0, msg |-> 0]
TypeError == [type |-> "TypeError", http_status |-> 0, msg |-> 0]

\* BOSSImage.__init__(self, addr, name, chunk_size)
BOSSImageParams == <<"addr", "name", "chunk_size">>

\* BOSSImage(*argv): the image, or the error of a call whose arguments do not
\* match the parameters
BOSSImage(argv) ==
    IF Len(argv) = Len(BOSSImageParams)
    THEN [exc |-> NoExc, name |-> argv[2], chunk_size |-> argv[3]]
    ELSE [exc |-> TypeError, name |-> <<>>, chunk_size |-> 0]

\* the attributes configure_add sets on the store (self.chunk_size,
\* self.READ_CHUNKSIZE, self.WRITE_CHUNKSIZE, self.addr), and port when the
\* base class of the store has one
StoreAttributes ==
    {"chunk_size", "READ_CHUNKSIZE", "WRITE_CHUNKSIZE", "addr"}
        \cup (IF conf.store_port THEN {"port"} ELSE {})

\* the attributes process_specs sets on the location (self.image, self.addr),
\* and port when the base class of the location has one
LocationAttributes ==
    {"image", "addr"} \cup (IF conf.loc_port THEN {"port"} ELSE {})

\* evaluating the arguments of a call, then the call: the first attribute
\* that is missing raises AttributeError
NewImage(names, attrs, argv) ==
    IF \E i \in DOMAIN names : names[i] \notin attrs
    THEN [exc |-> AttributeError, name |-> <<>>, chunk_size |-> 0]
    ELSE BOSSImage(argv)

\* Store.add, lines 283-284:
\* BOSSImage(self.addr, self.port, image_id, self.WRITE_CHUNKSIZE)
add_image ==
    NewImage(<<"addr", "port", "WRITE_CHUNKSIZE">>, StoreAttributes,
             <<"addr", "port", args.image_id, conf.boss_store_chunk_size>>)

\* Store.delete, lines 335-336:
\* BOSSImage(loc.addr, loc.port, loc.image, self.WRITE_CHUNKSIZE)
delete_image ==
    NewImage(<<"addr", "port", "image">>, LocationAttributes,
             <<"addr", "port", args.image_id, conf.boss_store_chunk_size>>)

\* Store.add: the call of line 283 passes four arguments to the three
\* parameters of BOSSImage, so the construction of the image raises and add
\* ends there: no line after it is run
BossAdd ==
    /\ pc = "boss_add"
    /\ add_image.exc # NoExc
    /\ result' = Raise(add_image.exc)
    /\ pc' = "done"
    /\ UNCHANGED <<confVars, backendVars, addLocals, deleteVars, getVars, hist>>
    /\ UNCHANGED manager

\* Store.delete: the call of line 335 raises in the same way
BossDelete ==
    /\ pc = "boss_delete"
    /\ delete_image.exc # NoExc
    /\ result' = Raise(delete_image.exc)
    /\ pc' = "done"
    /\ UNCHANGED <<confVars, backendVars, addLocals, deleteVars, getVars, hist>>
    /\ UNCHANGED manager

BossConfigurations ==
    [boss_store_chunk_size : 1..MaxChunk, store_port : BOOLEAN, loc_port : BOOLEAN]

\* the calls of the store, and what the backend is set to answer: write_fails
\* is the number of the write command that fails, 0 for none
BossArgs ==
    [op : {"boss_add"}, image_id : Identifiers, data_len : 0..MaxSrc,
     image_size : 0..MaxSize, verifier : BOOLEAN, write_fails : 0..1]
    \cup [op : {"boss_delete"}, image_id : Identifiers, data_len : {0},
          image_size : {0}, verifier : {FALSE}, write_fails : {0}]

\* the images of the cluster at the start: any of the identifiers
InitBoss ==
    /\ conf \in BossConfigurations
    /\ container_exists = TRUE
    /\ args \in BossArgs
    /\ \E present \in SUBSET Identifiers :
          objects = [n \in present |-> Object(<<>>, <<>>, None)]
    /\ pc = args.op
    /\ InitLocals

NextBoss ==
    \/ BossAdd
    \/ BossDelete

SpecBoss == InitBoss /\ [][NextBoss]_vars

----------------------------------------------------------------------------
(* The BOSS driver: ImageIterator over a BOSSImage *)

\* what a generator that raises StopIteration gives under PEP 479
RuntimeError == [type |-> "RuntimeError", http_status |-> 0, msg |-> 0]

\* line 178: total = left = image.get_size(); length holds total and
\* bytes_read holds total - left
BossIterStart ==
    /\ pc = "boss_iter"
    /\ length' = args.image_size
    /\ bytes_read' = 0
    /\ resp_iter' = [offset |-> 0, count |-> 0, len |-> 0]
    /\ pc' = "boss_loop"
    /\ UNCHANGED <<confVars, backendVars, addLocals, deleteVars, retries, wrapped,
                   yielded, streams, result, manager, hist>>

\* lines 179-182: one read of min(chunk_size, left) bytes at total - left; the
\* backend returns n bytes, and left -= len(data)
BossIterRead(n) ==
    /\ pc = "boss_loop"
    /\ length - bytes_read > 0
    /\ LET count == Min(conf.boss_store_chunk_size, length - bytes_read)
       IN  /\ n <= count
           /\ resp_iter' = [offset |-> bytes_read, count |-> count, len |-> n]
    /\ bytes_read' = bytes_read + n
    /\ pc' = "boss_yield"
    /\ UNCHANGED <<confVars, backendVars, addLocals, deleteVars, length, retries, wrapped,
                   yielded, streams, result, manager, hist>>

\* the read command fails: _run_command raises BackendException, lines 66-71
BossIterReadFail ==
    /\ pc = "boss_loop"
    /\ length - bytes_read > 0
    /\ result' = Raise(BackendException(0))
    /\ pc' = "done"
    /\ UNCHANGED <<confVars, backendVars, addLocals, deleteVars, getVars, manager, hist>>

\* line 183: yield data; the consumer asks for the next chunk
BossIterYield ==
    /\ pc = "boss_yield"
    /\ yielded' = yielded \o [i \in 1..resp_iter.len |-> resp_iter.offset + i]
    /\ pc' = "boss_loop"
    /\ UNCHANGED <<confVars, backendVars, addLocals, deleteVars, resp_iter, length, retries,
                   bytes_read, wrapped, streams, result, manager, hist>>

\* line 184, after the loop: raise StopIteration() inside the generator ends
\* the iteration, or is turned into RuntimeError by an interpreter with PEP 479
BossIterEnd ==
    /\ pc = "boss_loop"
    /\ length - bytes_read <= 0
    /\ result' \in {Return(Len(yielded), 0), Raise(RuntimeError)}
    /\ pc' = "done"
    /\ UNCHANGED <<confVars, backendVars, addLocals, deleteVars, getVars, manager, hist>>

InitBossIter ==
    /\ conf \in BossConfigurations
    /\ container_exists = TRUE
    /\ args \in [op : {"boss_iter"}, image_id : Identifiers, data_len : {0},
                  image_size : 0..MaxSize, verifier : {FALSE}, write_fails : {0}]
    /\ objects = [n \in {args.image_id} |-> Object(SourceData(args.image_size), <<>>, None)]
    /\ pc = "boss_iter"
    /\ InitLocals

NextBossIter ==
    \/ BossIterStart
    \/ \E n \in 0..MaxChunk : BossIterRead(n)
    \/ BossIterReadFail
    \/ BossIterYield
    \/ BossIterEnd

SpecBossIter == InitBossIter /\ [][NextBossIter]_vars

\* the consumer keeps iterating and every read command is answered
SpecBossIterFair == SpecBossIter /\ WF_vars(NextBossIter)

----------------------------------------------------------------------------
(* Properties of BaseStore.add, checked under SpecAdd *)

CeilDiv(a, b) == (a + b - 1) \div b

AddDone == pc = "done" /\ args.op = "add"

\* add reached the upload: the container check passed and no probe of the
\* source raised
Uploading == hist.container_ok /\ ~hist.probe_failed

NoCallFailed == \A i \in DOMAIN calls : calls[i].exc = NoExc

IsPut(c) == c.op = "put"
IsDelete(c) == c.op = "delete"
IsList(c) == c.op = "list"
IsFailedChunkPut(c) == c.op = "put" /\ c.exc # NoExc /\ c.hdr = "" /\ need_chunks
IsManifestPut(c) == c.op = "put" /\ c.hdr = "X-Object-Manifest"

CallLens(cs) == [i \in DOMAIN cs |-> cs[i].len]

\* the name of segment k as the wire format gives it, for k < 10
SegmentName(id, k) == id \o <<"-", "0", "0", "0", "0", DigitChar(k)>>

\* C1: a declared size s >= large_object_size, a source of at least s bytes
\* and no failing write: add writes ceil(s / large_object_chunk_size) segments,
\* then one manifest at the primary name, and the segment lengths sum to s.
C1_SegmentsThenManifest ==
    ( /\ AddDone /\ Uploading /\ NoCallFailed
      /\ args.image_size >= conf.large_object_size
      /\ args.data_len >= args.image_size )
    => LET n == CeilDiv(args.image_size, conf.large_object_chunk_size)
       IN  /\ result.kind = "return"
           /\ Len(calls) = n + 1
           /\ \A k \in 1..n :
                 /\ IsPut(calls[k]) /\ calls[k].hdr = ""
                 /\ calls[k].name = SegmentName(args.image_id, k)
           /\ calls[n + 1] = Call("put", args.image_id, NoExc, 0, "X-Object-Manifest")
           /\ SumSeq(CallLens(SubSeq(calls, 1, n))) = args.image_size

\* C1 witness: a finished add of 3 bytes or more in segments of 2 bytes or
\* more, the last segment shorter than the others, from a longer source
C1_Witness ==
    /\ AddDone /\ Uploading /\ NoCallFailed
    /\ args.image_size >= conf.large_object_size
    /\ args.data_len > args.image_size
    /\ conf.large_object_chunk_size >= 2
    /\ args.image_size % conf.large_object_chunk_size # 0
    /\ Len(calls) >= 3

\* C2 as stated: a declared size s with 0 < s < large_object_chunk_size, for
\* every large_object_size: add makes exactly one object write, to the primary
\* name, and writes no manifest and no segment.
C2_OneWriteBelowChunkSize ==
    ( /\ AddDone /\ Uploading
      /\ 0 < args.image_size /\ args.image_size < conf.large_object_chunk_size )
    => /\ Len(calls) = 1
       /\ IsPut(calls[1]) /\ calls[1].name = args.image_id /\ calls[1].hdr = ""

\* C2 as amended: a declared size s with 0 < s < large_object_size, for every
\* large_object_chunk_size: add makes exactly one object write, to the primary
\* name, and writes no manifest and no segment.
C2_OneWriteBelowThreshold ==
    ( /\ AddDone /\ Uploading
      /\ 0 < args.image_size /\ args.image_size < conf.large_object_size )
    => /\ Len(calls) = 1
       /\ IsPut(calls[1]) /\ calls[1].name = args.image_id /\ calls[1].hdr = ""

\* C2 witness: a finished single write of a size below the threshold and not
\* below the chunk size
C2_Witness ==
    /\ AddDone /\ Uploading /\ result.kind = "return"
    /\ 0 < args.image_size /\ args.image_size < conf.large_object_size
    /\ args.image_size >= conf.large_object_chunk_size
    /\ Len(calls) = 1

\* the index in calls of the segment write that failed, 0 when there is none
FailedChunkPut ==
    IF \E i \in DOMAIN calls : IsFailedChunkPut(calls[i])
    THEN CHOOSE i \in DOMAIN calls : IsFailedChunkPut(calls[i])
    ELSE 0

\* C3: when the write of segment k fails, a delete is issued for each of the
\* segments 1..k-1 and for no other name, no manifest is written at any time,
\* and add ends in error.
C3_FailedSegmentCleanup ==
    FailedChunkPut # 0
    => LET k == FailedChunkPut
       IN  /\ calls[k].name = SegmentName(args.image_id, k)
           /\ \A i \in 1..(k - 1) :
                 calls[i] = Call("put", SegmentName(args.image_id, i), NoExc,
                                 calls[i].len, "")
           /\ \A i \in DOMAIN calls : ~IsManifestPut(calls[i])
           /\ \A i \in DOMAIN calls : calls[i].name # args.image_id
           /\ \A i \in (k + 1)..Len(calls) :
                 /\ IsDelete(calls[i])
                 /\ calls[i].name = SegmentName(args.image_id, i - k)
           /\ Len(calls) <= 2 * k - 1
           /\ pc = "done" => /\ Len(calls) = 2 * k - 1
                             /\ result.kind = "raise"

\* C3 witness: the third segment write failed, two deletes were issued, one
\* of which failed itself
C3_Witness ==
    /\ AddDone /\ FailedChunkPut = 3 /\ Len(calls) = 5
    /\ \E i \in 4..5 : calls[i].exc # NoExc

\* C4: whenever add ends in failure after it wrote one or more segments,
\* whatever step failed, a delete has been issued for every segment it wrote.
C4_FailureDeletesEverySegment ==
    (AddDone /\ result.kind = "raise" /\ written_chunks # <<>>)
    => \A i \in DOMAIN written_chunks :
          \E j \in DOMAIN calls :
             IsDelete(calls[j]) /\ calls[j].name = written_chunks[i]

\* C5 as stated: when a segment write fails, the error add surfaces is the
\* error the failed write raised, for every kind of failure.
C5_SurfacesTriggeringError ==
    (AddDone /\ FailedChunkPut # 0)
    => result = Raise(calls[FailedChunkPut].exc)

\* C5 as amended: when a segment write fails, add surfaces the error the
\* failed write raised unless that error is a backend client error; a backend
\* client error is surfaced as Duplicate when it is a conflict and as a
\* BackendException carrying its message otherwise.
C5_SurfacesMappedError ==
    (AddDone /\ FailedChunkPut # 0)
    => LET e == calls[FailedChunkPut].exc
       IN  /\ result.kind = "raise"
           /\ e.type # "ClientException" => result.exc = e
           /\ (e.type = "ClientException" /\ e.http_status = CONFLICT)
                 => result.exc.type = "Duplicate"
           /\ (e.type = "ClientException" /\ e.http_status # CONFLICT)
                 => /\ result.exc.type = "BackendException"
                    /\ result.exc.msg = e.msg

\* C5 witness: the second segment write was answered with a conflict and the
\* delete of the first segment failed
C5_Witness ==
    /\ AddDone /\ FailedChunkPut = 2
    /\ calls[2].exc = ClientException(CONFLICT)
    /\ Len(calls) = 3 /\ calls[3].exc = SocketError

\* C6: with declared size 0, no segment of length 0 is ever written; a
\* successful add wrote segments until a ChunkReader found the source empty,
\* then the manifest, and returns the sum of the lengths of the segments.
C6_UnknownSizeStopsAtEmptyReader ==
    args.op = "add" /\ args.image_size = 0
    => /\ \A i \in DOMAIN calls :
             (IsPut(calls[i]) /\ calls[i].hdr = "" /\ calls[i].exc = NoExc)
                => calls[i].len >= 1
       /\ (pc = "done" /\ result.kind = "return")
             => LET n == Len(calls) - 1
                IN  /\ n >= 0
                    /\ \A k \in 1..n :
                          /\ IsPut(calls[k]) /\ calls[k].exc = NoExc
                          /\ calls[k].name = SegmentName(args.image_id, k)
                    /\ calls[n + 1] =
                          Call("put", args.image_id, NoExc, 0, "X-Object-Manifest")
                    /\ reader.live /\ reader.is_zero_size
                    /\ fd_pos = args.data_len
                    /\ SumSeq(CallLens(SubSeq(calls, 1, n))) = args.data_len
                    /\ result.size = SumSeq(CallLens(SubSeq(calls, 1, n)))

\* C6 witness: a successful add of unknown size whose source ends exactly at
\* the end of its second full segment
C6_Witness ==
    /\ AddDone /\ args.image_size = 0 /\ result.kind = "return"
    /\ Len(calls) = 3
    /\ args.data_len = 2 * conf.large_object_chunk_size

\* C7: the checksum a successful add returns is the checksum of the bytes add
\* read from the source, in order, on the single-write path and on the
\* segmented path.
C7_ChecksumOfBytesRead ==
    (AddDone /\ result.kind = "return")
    => result.etag = md5(SubSeq(data, 1, fd_pos))

\* C7 witness: a successful add in two segments or more, with a verifier, that
\* left part of the source unread
C7_Witness ==
    /\ AddDone /\ result.kind = "return" /\ need_chunks /\ args.verifier
    /\ Len(calls) >= 3 /\ fd_pos >= 3 /\ fd_pos < args.data_len

----------------------------------------------------------------------------
(* Properties of BaseStore.delete, checked under SpecDelete *)

DeleteDone == pc = "done" /\ args.op = "delete"

\* head_object answered with the metadata of the primary object
HeadAnswered == Len(calls) >= 1 /\ calls[1].op = "head" /\ calls[1].exc = NoExc

\* the values of x-static-large-object that mark a static manifest
StaticMarker == slo_manifest \in {"true", "True"}

DynamicMarker == dlo_manifest # <<>>

\* every error a call raised so far is a backend client error
OnlyClientErrors ==
    \A i \in DOMAIN calls : calls[i].exc.type \in {"None", "ClientException"}

ListSucceeded == \A i \in DOMAIN calls : IsList(calls[i]) => calls[i].exc = NoExc

\* head, one list under the prefix of the marker, one delete per name listed,
\* in the order listed, then the delete of the primary name
DynamicDeleteSequence ==
    LET n == Len(hist.listed)
    IN  /\ Len(calls) = n + 3
        /\ IsList(calls[2])
        /\ calls[2].name = obj_prefix(dlo_manifest)
        /\ { hist.listed[i] : i \in 1..n } =
              { name \in DOMAIN hist.objects0 :
                   HasPrefix(name, obj_prefix(dlo_manifest)) }
        /\ \A i \in 1..n :
              /\ IsDelete(calls[2 + i]) /\ calls[2 + i].hdr = ""
              /\ calls[2 + i].name = hist.listed[i]
        /\ IsDelete(calls[n + 3]) /\ calls[n + 3].hdr = ""
        /\ calls[n + 3].name = args.image_id

\* C8 as stated: delete of an object whose metadata carries a dynamic-manifest
\* marker issues one list call, one delete per listed segment, then the delete
\* of the primary name, also when segment deletes fail with client errors.
C8_DynamicMarkerSequence ==
    (DeleteDone /\ HeadAnswered /\ DynamicMarker /\ ListSucceeded /\ OnlyClientErrors)
    => DynamicDeleteSequence

\* C8 as amended: the same for an object that carries a dynamic-manifest
\* marker and no static-manifest marker: exactly one list call is issued, and
\* when it succeeds and no segment delete fails with an error other than a
\* backend client error, one delete per listed segment follows, then the
\* delete of the primary name.
C8_DynamicOnlySequence ==
    (DeleteDone /\ HeadAnswered /\ DynamicMarker /\ ~StaticMarker)
    => /\ Cardinality({ i \in DOMAIN calls : IsList(calls[i]) }) = 1
       /\ IsList(calls[2])
       /\ (ListSucceeded /\ OnlyClientErrors) => DynamicDeleteSequence

\* C8 witness: two segments or more were listed, the delete of the first one
\* failed with a client error, and the primary object was deleted
C8_Witness ==
    /\ DeleteDone /\ HeadAnswered /\ DynamicMarker /\ ~StaticMarker
    /\ Len(hist.listed) >= 2
    /\ calls[3].exc = ServerError
    /\ calls[Len(calls)].exc = NoExc
    /\ args.image_id \notin DOMAIN objects

\* C9: delete of an object whose metadata carries a static-manifest marker
\* issues exactly one delete call, with the multipart-manifest=delete
\* directive, no list call and no delete of a segment, also when the object
\* carries a dynamic-manifest marker.
C9_StaticMarkerOneDelete ==
    (DeleteDone /\ HeadAnswered /\ StaticMarker)
    => /\ Len(calls) = 2
       /\ IsDelete(calls[2])
       /\ calls[2].name = args.image_id
       /\ calls[2].hdr = "multipart-manifest=delete"

\* C9 witness: the object carried both markers, the static one as "True",
\* and segments were stored under the prefix of the dynamic one
C9_Witness ==
    /\ DeleteDone /\ HeadAnswered
    /\ slo_manifest = "True" /\ DynamicMarker
    /\ \E name \in DOMAIN objects : HasPrefix(name, obj_prefix(dlo_manifest))
    /\ Len(calls) = 2

\* every call was answered by the backend: the only error is a missing object
BackendAnswered ==
    \A i \in DOMAIN calls : calls[i].exc \in {NoExc, ClientException(NOT_FOUND)}

\* C10: delete of a location whose primary object does not exist when delete
\* starts removes no object, and ends with NotFound.
C10_MissingPrimaryNotFound ==
    (args.op = "delete" /\ args.image_id \notin DOMAIN hist.objects0)
    => /\ objects = hist.objects0
       /\ (pc = "done" /\ BackendAnswered) => result = Raise(NotFound)

\* C10 witness: the primary object was missing while segments under its name
\* were stored, and delete ended with NotFound
C10_Witness ==
    /\ DeleteDone /\ args.image_id \notin DOMAIN hist.objects0
    /\ SegmentName(args.image_id, 1) \in DOMAIN objects
    /\ result = Raise(NotFound)

----------------------------------------------------------------------------
(* Properties of swift_retry_iter and BaseStore.get, checked under SpecGet *)

GetDone == pc = "done" /\ args.op \in {"get", "swift_retry_iter"}

\* the number of streams of the history that ended with this outcome
Outcomes(o) == Cardinality({ i \in DOMAIN streams : streams[i].outcome = o })

\* the calls that asked for a continuation of the download
IsRangeGet(c) == c.op = "get" /\ c.hdr # <<>>

RangeGets == { i \in DOMAIN calls : IsRangeGet(calls[i]) }

\* the iterator of swift_retry_iter drives the download, for a known total length
\* that is the length of the object
Resumable ==
    /\ args.op = "swift_retry_iter" => args.length = Len(body)
    /\ args.op = "get" => conf.swift_store_retry_get_count >= 1 /\ calls # <<>>
                          /\ calls[1].exc = NoExc

\* C11: for a total length L > 0 and a retry budget r >= 1, when the stream is
\* interrupted by client errors at most r times and nothing else goes wrong
\* (no stream ends early or raises another error, every re-acquisition is
\* answered), the download ends normally with exactly the L bytes of the
\* object in order; and every re-acquisition carries the open-ended range
\* bytes=<offset>- whose offset is the number of bytes yielded so far.
C11_ResumedDownloadComplete ==
    /\ \A i \in RangeGets :
          calls[i].hdr = <<"bytes=", DigitChar(calls[i].len), "-">>
    /\ ( /\ GetDone
         /\ Resumable
         /\ Len(body) > 0
         /\ conf.swift_store_retry_get_count >= 1
         /\ Outcomes("client_error") <= conf.swift_store_retry_get_count
         /\ Outcomes("short") = 0 /\ Outcomes("error") = 0
         /\ \A i \in RangeGets : calls[i].exc = NoExc )
       => /\ result.kind = "return"
          /\ yielded = [i \in 1..Len(body) |-> i]

\* a download of three bytes that was interrupted twice, after one byte and
\* after two, and is complete
C11_Witness ==
    /\ GetDone /\ Resumable
    /\ Len(body) = 3
    /\ Outcomes("client_error") = 2
    /\ Len(calls) >= 2
    /\ calls[Len(calls)].hdr = <<"bytes=", "2", "-">>
    /\ calls[Len(calls)].exc = NoExc
    /\ calls[Len(calls) - 1].hdr = <<"bytes=", "1", "-">>
    /\ result.kind = "return"
    /\ yielded = <<1, 2, 3>>

\* swift_retry_iter is called directly with no retry allowed, for a known total
\* length, and its only stream was interrupted by a client error
InterruptedNoBudget ==
    /\ args.op = "swift_retry_iter"
    /\ conf.swift_store_retry_get_count = 0
    /\ args.length = Len(body)
    /\ streams # <<>>
    /\ streams[1].outcome = "client_error"

\* C12: with retry budget 0, the iterator over a stream that a client error
\* interrupts after b < L bytes yields exactly those b bytes (the first b bytes
\* of the object), asks the backend for no new stream, and ends normally: no
\* error is raised.
C12_NoBudgetShortRead ==
    (InterruptedNoBudget /\ resp_iter.pos < Len(body))
    => /\ Len(streams) = 1
       /\ calls = <<>>
       /\ yielded = [i \in 1..resp_iter.pos |-> i]
       /\ pc = "done" => result = Return(resp_iter.pos, 0)
       /\ pc \in {"check", "done"}

\* the stream failed after two of three bytes and the iterator has ended
C12_Witness ==
    /\ InterruptedNoBudget
    /\ pc = "done"
    /\ Len(body) = 3
    /\ resp_iter.pos = 2
    /\ yielded = <<1, 2>>
    /\ result.kind = "return"

\* C13: whatever the configured retry count (0 included), a client error that
\* the response stream raises while the consumer iterates the body returned by
\* get never reaches the consumer: the iteration ends normally, at worst with
\* a short read.
C13_StreamErrorNeverPropagated ==
    ( /\ args.op = "get"
      /\ pc = "done"
      /\ Outcomes("client_error") > 0
      /\ Outcomes("error") = 0
      /\ \A i \in DOMAIN calls : calls[i].exc = NoExc )
    => result.kind = "return"

\* C14: for every retry budget r >= 0 and every pattern of stream failures and
\* early stream ends, the download acquires at most r + 1 streams (the first
\* one and at most r range re-acquisitions), and it terminates, every stream
\* being finite.
C14_BoundedAcquisitionsThenEnd ==
    /\ [](/\ Len(streams) <= conf.swift_store_retry_get_count + 1
          /\ Cardinality(RangeGets) <= conf.swift_store_retry_get_count)
    /\ <>(pc = "done")

\* a download with budget 2 that used its three streams: one failed, one ended
\* early, and the iterator has stopped
C14_Witness ==
    /\ GetDone
    /\ conf.swift_store_retry_get_count = 2
    /\ Len(streams) = 3
    /\ Outcomes("client_error") >= 1
    /\ Outcomes("short") >= 1
    /\ Cardinality(RangeGets) = 2
    /\ result.kind = "return"
    /\ Len(yielded) < Len(body)

\* the download is driven by swift_retry_iter
Iterated == args.op = "swift_retry_iter" \/ conf.swift_store_retry_get_count >= 1

\* C15: at every point of a resumable download (after interruptions, after
\* resumptions, after the budget is exhausted) the bytes yielded so far are the
\* first bytes_read bytes of the object, in order: none is duplicated, skipped
\* or reordered.  Every resumed stream starts at the offset asked for.
C15_YieldedIsPrefix ==
    Iterated => /\ bytes_read <= Len(body)
                /\ yielded = [i \in 1..bytes_read |-> i]

\* a download with budget 1 that was resumed at offset 1, got one byte more and
\* stopped short, its budget exhausted
C15_Witness ==
    /\ Iterated
    /\ GetDone
    /\ conf.swift_store_retry_get_count = 1
    /\ Len(body) = 3
    /\ Len(streams) = 2
    /\ streams[1].outcome = "client_error"
    /\ streams[2].offset = 1
    /\ streams[2].outcome \in {"client_error", "short"}
    /\ bytes_read = 2
    /\ yielded = <<1, 2>>

\* swift_retry_iter is called with no declared length on a stream that exposes
\* none
LengthUnknown == args.op = "swift_retry_iter" /\ args.length = 0 /\ ~args.has_len

\* C16: when the total length of a download is unknown (declared 0, and the
\* stream exposes no length), the iterator stops normally once its stream ends
\* or fails with a client error, whatever number of bytes it has yielded, and
\* it requests no range continuation.
C16_UnknownLengthNoContinuation ==
    (LengthUnknown /\ Outcomes("error") = 0)
    => /\ RangeGets = {}
       /\ Len(streams) <= 1
       /\ pc = "done" => result.kind = "return"

----------------------------------------------------------------------------
(* Further properties of BaseStore.add *)

\* the writes of add that the backend answered with a client error
ClientErrorPuts ==
    { i \in DOMAIN calls : IsPut(calls[i]) /\ calls[i].exc.type = "ClientException" }

\* C17: when a backend write of add (of the object, of a segment or of the
\* manifest) is answered with a conflict, add ends with Duplicate; when it is
\* answered with another backend client error, add ends with a Backend
\* failure that carries the message of the backend.
C17_ConflictIsDuplicate ==
    (args.op = "add" /\ pc = "done")
    => \A i \in ClientErrorPuts :
          IF calls[i].exc.http_status = 409
          THEN result = [kind |-> "raise", size |-> 0, etag |-> 0,
                         exc |-> [type |-> "Duplicate", http_status |-> 0, msg |-> 0]]
          ELSE result = [kind |-> "raise", size |-> 0, etag |-> 0,
                         exc |-> [type |-> "BackendException", http_status |-> 0,
                                  msg |-> calls[i].exc.msg]]

\* the write of the manifest, after two segments, was answered with a server
\* error and add ended with a Backend failure
C17_Witness ==
    /\ args.op = "add" /\ pc = "done"
    /\ Len(calls) = 3
    /\ IsManifestPut(calls[3])
    /\ calls[3].exc = ClientException(500)
    /\ result.exc.type = "BackendException"
    /\ result.exc.msg = 500

\* the segment writes that succeeded so far
SegmentWrites ==
    { i \in DOMAIN calls :
        IsPut(calls[i]) /\ calls[i].exc = NoExc /\ calls[i].name # args.image_id }

\* C20: at every point of a segmented add, the list of written segments is
\* identifier-00001 .. identifier-0000n in this order, with no gap, n being
\* the number of segment writes that succeeded, and the next index is n + 1;
\* when add has succeeded these segments and the manifest are all the objects
\* stored.
C20_WrittenChunksGapless ==
    args.op = "add"
    => LET n == Cardinality(SegmentWrites)
       IN  /\ written_chunks = [k \in 1..n |-> SegmentName(args.image_id, k)]
           /\ chunk_id = n + 1
           /\ (pc = "done" /\ result.kind = "return" /\ n > 0)
                 => DOMAIN objects = { SegmentName(args.image_id, k) : k \in 1..n }
                                        \cup {args.image_id}

\* two segments of a-b were written, the third write failed and the two are
\* being handed to the cleanup
C20_Witness ==
    /\ args.op = "add" /\ pc = "stale"
    /\ written_chunks = << <<"a", "-", "b", "-", "0", "0", "0", "0", "1">>,
                           <<"a", "-", "b", "-", "0", "0", "0", "0", "2">> >>
    /\ chunk_id = 3
    /\ Len(calls) = 3
    /\ calls[3].exc # NoExc

\* the second add of the identifier has ended, and the backend answered its
\* write to the primary name with a conflict
ReAddConflict ==
    /\ args.op = "add" /\ pc = "done" /\ hist.readd
    /\ \E i \in DOMAIN calls :
          /\ IsPut(calls[i]) /\ calls[i].name = args.image_id
          /\ calls[i].exc.type = "ClientException"
          /\ calls[i].exc.http_status = 409

\* C18: an add of an identifier whose earlier add completed, answered with a
\* conflict on the primary name, ends with Duplicate and leaves what the
\* earlier add stored as it was: the primary object and every segment keep
\* their content.
C18_DuplicateLeavesObject ==
    ReAddConflict
    => /\ result.kind = "raise" /\ result.exc.type = "Duplicate"
       /\ \A n \in DOMAIN hist.objects0 :
             n \in DOMAIN objects /\ objects[n] = hist.objects0[n]

\* the names and the manifest header of the scenario, as they are on the wire
Img1 == <<"i", "m", "g", "-", "1">>
Img1Segment(k) == <<"i", "m", "g", "-", "1", "-", "0", "0", "0", "0", k>>

\* C19: add of img-1 with a source of 10 units declared as 10, segment size 4
\* and threshold 5, when no call fails, stores exactly the segments
\* img-1-00001 (units 1..4), img-1-00002 (units 5..8), img-1-00003 (units
\* 9..10) and the manifest img-1 for the prefix img-1-; add returns 10 and
\* get_size on the location then returns 10.
C19_EndToEnd ==
    /\ ( /\ args.image_id = Img1 /\ args.data_len = 10 /\ args.image_size = 10
         /\ conf.large_object_size = 5 /\ conf.large_object_chunk_size = 4
         /\ pc \in {"done", "size_done"}
         /\ hist.container_ok /\ ~hist.probe_failed
         /\ \A i \in DOMAIN calls : calls[i].exc = NoExc )
       => /\ DOMAIN objects = {Img1, Img1Segment("1"), Img1Segment("2"), Img1Segment("3")}
          /\ objects[Img1Segment("1")].body = <<1, 2, 3, 4>>
          /\ objects[Img1Segment("2")].body = <<5, 6, 7, 8>>
          /\ objects[Img1Segment("3")].body = <<9, 10>>
          /\ objects[Img1].body = <<>>
          /\ objects[Img1].x_object_manifest = <<"g", "/", "i", "m", "g", "-", "1", "-">>
          /\ result.kind = "return" /\ result.size = 10
          /\ pc = "size_done" => calls[Len(calls)].op = "head"

\* the scenario has run to its end: three segments and the manifest were
\* written, and get_size answered 10
C19_Witness ==
    /\ args.image_id = Img1 /\ args.data_len = 10 /\ args.image_size = 10
    /\ pc = "size_done"
    /\ Len(calls) = 5
    /\ \A i \in DOMAIN calls : calls[i].exc = NoExc
    /\ CallLens(calls) = <<4, 4, 2, 0, 0>>
    /\ result = Return(10, 0)

\* the error add surfaces for a write that raised e
SurfacedFor(e) ==
    IF e.type # "ClientException" THEN e
    ELSE IF e.http_status = 409
         THEN [type |-> "Duplicate", http_status |-> 0, msg |-> 0]
         ELSE [type |-> "BackendException", http_status |-> 0, msg |-> e.msg]

\* C28: in the cleanup that follows a failed segment write, a delete that
\* fails does not stop the cleanup and does not replace the error: when add
\* has ended, one delete was attempted for each written segment, in the order
\* of the writes, whatever each delete answered, and the error add surfaces
\* is the one the failed write determines.
C28_CleanupBestEffort ==
    (AddDone /\ FailedChunkPut # 0)
    => LET k == FailedChunkPut
       IN  /\ Len(calls) = 2 * k - 1
           /\ \A i \in 1..(k - 1) :
                 /\ calls[k + i].op = "delete"
                 /\ calls[k + i].name = SegmentName(args.image_id, i)
           /\ result.kind = "raise"
           /\ result.exc = SurfacedFor(calls[k].exc)

\* the third segment write was answered with a conflict, the delete of the
\* first segment failed, the second segment was deleted all the same, and add
\* ended with Duplicate
C28_Witness ==
    /\ AddDone /\ FailedChunkPut = 3 /\ Len(calls) = 5
    /\ calls[3].exc = ClientException(409)
    /\ calls[4].exc = ClientException(500)
    /\ calls[5].exc = NoExc
    /\ result.exc.type = "Duplicate"

----------------------------------------------------------------------------
(* Properties of ChunkReader, checked under SpecReader *)

\* C29: for every ChunkReader and every sequence of read(n) calls with n >= 0,
\* each call returns at most n bytes, bytes_read is the sum of the lengths of
\* the bytes returned, and bytes_read never exceeds the budget of the reader.
\* For the readers of add, whose reads put_object makes, bytes_read is the
\* length of what the reader handed to the put so far.
C29_ReadWithinBudget ==
    /\ args.op = "reader"
       => /\ \A i \in DOMAIN calls : calls[i].len <= calls[i].hdr
          /\ reader.bytes_read = SumSeq(CallLens(calls))
          /\ reader.bytes_read <= args.total
    /\ (args.op = "add" /\ reader.live)
       => /\ reader.bytes_read <= reader.total
          /\ (pc = "put" /\ put.contents = "reader")
                => reader.bytes_read = Len(put.sent)

\* a reader with budget 3 on a source of 4 bytes was asked read(0), read(2),
\* read(2), read(2) and returned 0, 2, 1 and 0 bytes
C29_Witness ==
    /\ args.op = "reader" /\ args.total = 3 /\ args.data_len = 4 /\ args.start = 0
    /\ Len(calls) = 4
    /\ calls[1].hdr = 0
    /\ \A i \in 2..4 : calls[i].hdr = 2
    /\ CallLens(calls) = <<0, 2, 1, 0>>
    /\ reader.bytes_read = 3

\* the bodies of the objects of a list of names, one after the other
RECURSIVE Bodies(_, _)
Bodies(objs, names) ==
    IF names = <<>> THEN <<>>
    ELSE objs[Head(names)].body \o Bodies(objs, Tail(names))

\* C30: the look-ahead of one byte loses and duplicates nothing.  For a reader
\* built on a source at position start, whatever its budget and the sizes of
\* the reads (read(0) first included), the bytes returned so far, one after
\* the other, are the bytes of the source that follow start, the probed byte
\* first; and the source has given exactly these bytes, plus the probed byte
\* as long as no byte was returned.  For add: when add returns, the bodies of
\* the segments it wrote (or of the one object), in order, are the bytes of
\* the source up to the position add left it at.
C30_LookAheadLosesNothing ==
    /\ (args.op = "reader" /\ pc = "reading")
       => /\ checksum = [i \in 1..Len(checksum) |-> args.start + i]
          /\ checksum # <<>> => fd_pos = args.start + Len(checksum)
          /\ checksum = <<>>
                => fd_pos = args.start + (IF args.start < args.data_len THEN 1 ELSE 0)
    /\ (args.op = "add" /\ pc = "done" /\ result.kind = "return")
       => Bodies(objects, IF written_chunks = <<>> /\ ~need_chunks
                          THEN <<args.image_id>> ELSE written_chunks)
             = [i \in 1..fd_pos |-> i]

\* a reader with budget 3 built at position 1 of a source of 4 bytes was asked
\* read(0), then read(1) and read(2), and returned the bytes 2, 3 and 4
C30_Witness ==
    /\ args.op = "reader" /\ args.total = 3 /\ args.data_len = 4 /\ args.start = 1
    /\ Len(calls) = 3
    /\ calls[1].hdr = 0 /\ calls[2].hdr = 1 /\ calls[3].hdr = 2
    /\ checksum = <<2, 3, 4>>
    /\ fd_pos = 4

----------------------------------------------------------------------------
(* Properties of the BOSS driver, checked under SpecBoss *)

\* the commands of the log that carry this name
Commands(op) == { i \in DOMAIN calls : calls[i].op = op }

BossAddDone == args.op = "boss_add" /\ pc = "done"
BossDeleteDone == args.op = "boss_delete" /\ pc = "done"

\* the image of the call was in the cluster when the call started
ImageExisted == args.image_id \in DOMAIN hist.objects0

\* C24: add of an image that does not exist, when no command fails, checks
\* existence once, creates the image once with the declared size, writes the
\* chunks of the source one after the other, each at the offset that is the
\* total length of the chunks before it, and returns the number of bytes
\* written.
C24_BossAddWritesChunks ==
    (BossAddDone /\ ~ImageExisted /\ args.write_fails = 0)
    => /\ Cardinality(Commands("list -r")) = 1
       /\ Cardinality(Commands("create")) = 1
       /\ \A i \in Commands("create") : calls[i].len = args.image_size
       /\ \A i \in Commands("write") :
             calls[i].hdr = SumSeq([j \in 1..(i - 1) |->
                                      IF calls[j].op = "write" THEN calls[j].len ELSE 0])
       /\ result.kind = "return"
       /\ result.size = args.data_len

\* C25: when a chunk write fails during add, the image add created is deleted
\* exactly once, no chunk is written after the failure, and the exception of
\* the write reaches the caller as it is.
C25_BossAddCleanup ==
    (BossAddDone /\ ~ImageExisted /\ args.write_fails = 1 /\ args.data_len >= 1)
    => /\ Cardinality(Commands("write")) = 1
       /\ Cardinality(Commands("delete")) = 1
       /\ result.kind = "raise"
       /\ result.exc.type = "BackendException"

\* C26: add of an image that already exists ends with Duplicate and issues no
\* create, resize, write or delete command: the image is as it was.
C26_BossAddDuplicate ==
    (BossAddDone /\ ImageExisted)
    => /\ result.kind = "raise" /\ result.exc.type = "Duplicate"
       /\ \A i \in DOMAIN calls : calls[i].op \notin {"create", "resize", "write", "delete"}
       /\ objects = hist.objects0

\* C27: delete of an existing image issues the existence check and then the
\* delete, these two commands in this order; delete of an image that does not
\* exist ends with NotFound and issues no delete.
C27_BossDeleteSequence ==
    BossDeleteDone
    => IF ImageExisted
       THEN /\ Len(calls) = 2
            /\ calls[1].op = "list -r" /\ calls[2].op = "delete"
            /\ result.kind = "return"
       ELSE /\ result.kind = "raise" /\ result.exc.type = "NotFound"
            /\ Commands("delete") = {}

----------------------------------------------------------------------------
(* Operations on different identifiers, checked under SpecDelete *)

\* the names an add of the identifier writes: the primary name and the names
\* of its segments
OwnedBy(id) == {id} \cup { chunk_name(id, k) : k \in 1..MaxSegments }

\* the primary object of the delete is as add left it: no manifest marker, or
\* the dynamic-manifest marker add writes for this identifier
AsAddLeftIt ==
    args.image_id \in DOMAIN hist.objects0
    => /\ hist.objects0[args.image_id].x_static_large_object = None
       /\ hist.objects0[args.image_id].x_object_manifest
             \in {<<>>, manifest_header(args.image_id)}

\* C21 as stated: a delete of identifier B never deletes or overwrites the
\* primary object or a segment that belongs to another identifier A of the
\* same container.
C21_DeleteLeavesOtherIdentifiers ==
    (args.op = "delete" /\ AsAddLeftIt)
    => \A A \in Identifiers \ {args.image_id} :
          \A n \in OwnedBy(A) \cap DOMAIN hist.objects0 :
             n \in DOMAIN objects /\ objects[n] = hist.objects0[n]

----------------------------------------------------------------------------
(* The with blocks of BaseStore.add and BaseStore.get *)

InitScoped == InitAdd \/ InitGet

NextScoped == NextAdd \/ NextGet

SpecScoped == InitScoped /\ [][NextScoped]_vars

\* C22: the connection manager that add and get acquire is released exactly
\* once on every exit path: it is not released while the with block of add
\* runs, and it has been released once when add has returned or raised
\* (Duplicate, BackendException, any other error) and when get has returned
\* its iterator or raised (NotFound, any other error).
C22_ManagerReleasedOnce ==
    /\ manager.exited <= manager.entered
    /\ (args.op = "add" /\ pc # "add")
       => /\ manager.entered = 1
          /\ manager.exited = IF pc = "done" THEN 1 ELSE 0
    /\ (args.op = "get" /\ pc # "get")
       => manager.entered = 1 /\ manager.exited = 1

\* C22 witness: a segmented add met a conflict on a later segment, deleted
\* the segments written so far, raised Duplicate and released its manager
C22_Witness ==
    /\ AddDone /\ need_chunks
    /\ result.kind = "raise" /\ result.exc.type = "Duplicate"
    /\ Len(calls) >= 3
    /\ manager.entered = 1 /\ manager.exited = 1

----------------------------------------------------------------------------
(* The connection manager: get_connection and the proactive token refresh *)

\* the configured reauthentication pre-expiry margin
ManagerConfigurations == [reauth_margin : 0..MaxMargin]

\* construction binds the manager to a location and to the flag
\* "reauthentication allowed"
ManagerArgs ==
    [op : {"get_connection"}, image_id : {<<"a">>}, allow_reauth : BOOLEAN]

\* no connection has been handed out yet
NoConnection == [token |-> 0, expires |-> 0, at |-> 0, stale |-> 0, left |-> 0]

\* the identity service: "authenticate with credentials -> token + expiry";
\* tokens are numbered in the order of their issue
authenticate(m, lifetime) ==
    [m EXCEPT !.token = @ + 1, !.expires = m.now + lifetime]

\* a check that sees a token only when it has expired
expires_soon_after_expiry(m) == m.now >= m.expires

\* the token has expired or is within the configured pre-expiry margin
expires_soon(m) ==
    m.now >= m.expires \/ m.expires - m.now < conf.reauth_margin

\* the manager is made and authenticates for its first connection
ManagerNew(lifetime) ==
    /\ pc = "manager"
    /\ manager' = authenticate([allow_reauth |-> args.allow_reauth, entered |-> 0,
                                exited |-> 0, now |-> 0, token |-> 0, expires |-> 0,
                                conn |-> NoConnection], lifetime)
    /\ pc' = "connected"
    /\ UNCHANGED <<confVars, backendVars, addLocals, deleteVars, getVars, result, hist>>

\* time passes between two calls of the manager
ManagerTick ==
    /\ pc = "connected"
    /\ manager.now < MaxTime
    /\ manager' = [manager EXCEPT !.now = @ + 1]
    /\ UNCHANGED <<confVars, backendVars, pc, addLocals, deleteVars, getVars, result, hist>>

\* get_connection(): with reauthentication allowed, a token that has expired
\* or is within the margin is replaced before the connection is returned; the
\* connection returned is backed by the token the manager holds then
get_connection(m, lifetime) ==
    LET fresh == IF m.allow_reauth /\ expires_soon(m)
                 THEN authenticate(m, lifetime) ELSE m
    IN  [fresh EXCEPT !.conn = [token |-> fresh.token, expires |-> fresh.expires,
                                at |-> m.now, stale |-> m.token,
                                left |-> m.expires - m.now]]

GetConnection(lifetime) ==
    /\ pc = "connected"
    /\ manager.token < MaxTokens
    /\ manager' = get_connection(manager, lifetime)
    /\ UNCHANGED <<confVars, backendVars, pc, addLocals, deleteVars, getVars, result, hist>>

InitManager ==
    /\ conf \in ManagerConfigurations
    /\ container_exists = TRUE
    /\ objects = NoObjects
    /\ args \in ManagerArgs
    /\ pc = "manager"
    /\ InitLocals

NextManager ==
    \/ \E lifetime \in 1..MaxLifetime : ManagerNew(lifetime)
    \/ ManagerTick
    \/ \E lifetime \in 1..MaxLifetime : GetConnection(lifetime)

SpecManager == InitManager /\ [][NextManager]_vars

\* a connection has been handed out by get_connection
Connected == pc = "connected" /\ manager.conn # NoConnection

\* C23: when reauthentication is allowed and the token has expired or has less
\* than the configured margin left at the call, the connection get_connection
\* returns is backed by a token issued after the stale one; and no connection
\* returned with reauthentication allowed is expired when it is returned.
C23_ProactiveRefresh ==
    (Connected /\ manager.allow_reauth)
    => /\ (manager.conn.left <= 0 \/ manager.conn.left < conf.reauth_margin)
          => manager.conn.token > manager.conn.stale
       /\ manager.conn.expires > manager.conn.at

\* C23 witness: a token that was still valid, but within the margin, was
\* replaced some time after the manager was made
C23_Witness ==
    /\ Connected /\ manager.allow_reauth
    /\ manager.conn.at > 0
    /\ manager.conn.left > 0 /\ manager.conn.left < conf.reauth_margin
    /\ manager.conn.token > manager.conn.stale
    /\ manager.conn.expires > manager.conn.at

----------------------------------------------------------------------------
(* The verifier of add, for the Swift store and for the BOSS store *)

SpecVerified == (InitAdd \/ InitBoss) /\ [][NextAdd \/ NextBoss]_vars

\* the number of bytes the write commands of the log carried
BytesOfCommands(op) ==
    SumSeq([i \in 1..Len(calls) |-> IF calls[i].op = op THEN calls[i].len ELSE 0])

----------------------------------------------------------------------------
(* The manager of BaseStore.get and the iterator get returns, under SpecGet *)

\* C32 as stated: every get_connection() call made on behalf of a get, the
\* range re-acquisitions of swift_retry_iter included, happens before the
\* manager that get acquired is released.
C32_NoConnectionAfterRelease ==
    args.op = "get" => manager.late = 0

----------------------------------------------------------------------------
(* The size a successful add returns, under SpecAdd *)

\* the names add stored the bytes of the image under
StoredNames == IF written_chunks = <<>> /\ ~need_chunks
               THEN <<args.image_id>> ELSE written_chunks

\* C33 as stated: the size a successful add returns is the number of bytes
\* stored for the object, the sum of the lengths of the segments for a
\* segmented add, also when the source holds fewer bytes than declared.
C33_ReturnsBytesStored ==
    (AddDone /\ result.kind = "return")
    => result.size = Len(Bodies(objects, StoredNames))

----------------------------------------------------------------------------
(* Termination of the segmentation loop, under SpecAddFair *)

\* add is in its while loop: at its top, or in the put_object of a segment
InLoop == pc = "loop" \/ (pc = "put" /\ put.kind = "chunk")

\* C34: the segmentation loop of add terminates, for every source and every
\* declared size: an add that is in the loop leaves it.
C34_LoopTerminates == InLoop ~> ~InLoop

\* C34 witness: the loop was left after two segments or more, for a declared
\* size larger than the source
C34_Witness ==
    /\ args.op = "add" /\ pc = "manifest"
    /\ Len(written_chunks) >= 2
    /\ args.image_size > args.data_len

----------------------------------------------------------------------------
(* Round trip of add and delete, under SpecRoundTrip *)

\* C35: after a successful segmented add and a delete of the returned
\* location that returned and in which no backend delete failed, the backend
\* holds neither the primary object nor a segment of the identifier.
C35_AddDeleteRoundTrip ==
    ( /\ DeleteDone /\ result.kind = "return" /\ need_chunks
      /\ \A i \in DOMAIN calls : IsDelete(calls[i]) => calls[i].exc = NoExc )
    => /\ args.image_id \notin DOMAIN objects
       /\ \A i \in DOMAIN written_chunks : written_chunks[i] \notin DOMAIN objects
       /\ \A n \in DOMAIN objects : ~HasPrefix(n, args.image_id \o <<"-">>)

\* C35 witness: the add wrote two segments or more and the manifest, and the
\* delete removed them one by one, then the manifest
C35_Witness ==
    /\ DeleteDone /\ result.kind = "return" /\ need_chunks
    /\ Len(written_chunks) >= 2
    /\ Len(calls) = Len(written_chunks) + 3
    /\ \A i \in DOMAIN calls : calls[i].exc = NoExc
    /\ objects = NoObjects

----------------------------------------------------------------------------
(* A failed range re-acquisition of swift_retry_iter, under SpecGet *)

\* the last call of the log asked for a continuation and failed
ReacquisitionFailed ==
    /\ calls # <<>>
    /\ IsRangeGet(calls[Len(calls)])
    /\ calls[Len(calls)].exc # NoExc

\* C36: when a range re-acquisition of the iterator fails, the error reaches
\* the consumer (NotFound for a missing object, the error of the backend as
\* it is otherwise), the iterator has ended, no byte was yielded after the
\* failed call and no other continuation was asked after it.
C36_ReacquisitionFailurePropagates ==
    ReacquisitionFailed
    => LET failed == calls[Len(calls)]
       IN  /\ pc = "done"
           /\ result = Raise(IF failed.exc = ClientException(NOT_FOUND)
                             THEN NotFound ELSE failed.exc)
           /\ Len(yielded) = failed.len
           /\ \A i \in RangeGets : i < Len(calls) => calls[i].exc = NoExc

\* C36 witness: with a budget of two retries, one byte or more was yielded,
\* the first continuation found the object missing and NotFound was raised
C36_Witness ==
    /\ ReacquisitionFailed
    /\ conf.swift_store_retry_get_count = 2
    /\ retries = 1
    /\ Len(yielded) >= 1
    /\ calls[Len(calls)].exc = ClientException(NOT_FOUND)
    /\ result = Raise(NotFound)

----------------------------------------------------------------------------
(* swift_retry_iter on a stream that ends short, under SpecGet *)

\* the stream the iterator reads has just ended with this outcome
StreamEnded(o) ==
    /\ wrapped /\ streams # <<>>
    /\ streams[Len(streams)].outcome = o

\* C37: the iterator resumes on every short stream: when the current stream
\* has ended without raising, fewer bytes than the declared length were
\* yielded and retries remain, the next step of the iterator consumes one
\* retry and asks for the range that starts at the number of bytes yielded.
\* A client error of the stream is absorbed in the same way; any other
\* exception of the stream reaches the consumer.
C37_ResumesOnShortStream ==
    [][ /\ ( /\ pc = "check"
             /\ StreamEnded("short") \/ StreamEnded("client_error")
             /\ Len(yielded) < length
             /\ retries < conf.swift_store_retry_get_count )
           => /\ retries' = retries + 1
              /\ Len(calls') = Len(calls) + 1
              /\ calls'[Len(calls')].op = "get"
              /\ calls'[Len(calls')].hdr = bytes_range(Len(yielded))
        /\ (pc = "iter" /\ wrapped /\ pc' # "iter" /\ resp_iter.open)
           => /\ streams'[Len(streams')].outcome = "error"
                 <=> (pc' = "done" /\ result' = Raise(SocketError))
              /\ streams'[Len(streams')].outcome \in {"short", "end", "client_error"}
                 <=> (pc' = "check" /\ result' = result)
      ]_vars

\* C37 witness: the first stream ended short without an error after one byte
\* or more, and the iterator went on with a second stream from that offset
C37_Witness ==
    /\ wrapped /\ Len(streams) >= 2
    /\ streams[1].outcome = "short"
    /\ streams[2].offset >= 1
    /\ Outcomes("client_error") = 0 /\ Outcomes("error") = 0
    /\ retries = 1
    /\ Len(yielded) > streams[2].offset

----------------------------------------------------------------------------
(* Properties of BaseStore.get_size, checked under SpecGetSize *)

GetSizeDone == pc = "size_done" /\ args.op = "get_size"

\* C38: get_size never raises for its metadata request: it returns 0 when the
\* object is missing or the request failed for any reason, and otherwise the
\* length the backend reported for the primary name.
C38_GetSizeNeverRaises ==
    GetSizeDone
    => /\ result.kind = "return"
       /\ Len(calls) = 1 /\ calls[1].op = "head" /\ calls[1].name = args.image_id
       /\ args.image_id \notin DOMAIN objects => result.size = 0
       /\ calls[1].exc # NoExc => result.size = 0
       /\ calls[1].exc = NoExc => result.size = calls[1].len

\* C38 witness: the object is in the container with a body of two bytes or
\* more, the metadata request failed with a server error and get_size
\* returned 0
C38_Witness ==
    /\ GetSizeDone
    /\ args.image_id \in DOMAIN objects
    /\ Len(objects[args.image_id].body) >= 2
    /\ calls[1].exc = ServerError
    /\ result = Return(0, 0)

----------------------------------------------------------------------------
(* Properties of ImageIterator, checked under SpecBossIterFair *)

\* C39 as stated: the iterator terminates, whatever the image size and the
\* length of data the backend returns per read, a read that returns no data
\* included.
C39_ImageIteratorTerminates == <>(pc = "done")

----------------------------------------------------------------------------
(* The flag allow_reauth of the manager, for every class of store *)

\* add and get on a store of any class; the source of add holds two bytes at
\* most and no verifier is given
InitStores ==
    \/ /\ conf \in StoreConfigurations
       /\ container_exists \in BOOLEAN
       /\ objects = NoObjects
       /\ args \in { a \in AddArgs : a.data_len <= 2 /\ ~a.verifier }
       /\ pc = "add"
       /\ InitLocals
    \/ /\ conf \in GetStoreConfigurations
       /\ container_exists = TRUE
       /\ args \in { a \in GetArgs : a.op = "get" }
       /\ \E len \in 0..MaxObj, present \in BOOLEAN :
             objects = IF present
                       THEN [n \in {args.image_id} |-> Object(SourceData(len), <<>>, None)]
                       ELSE NoObjects
       /\ pc = "get"
       /\ InitLocals

NextStores ==
    \/ NextAdd
    \/ \E f \in GetFaults \cup {NoExc} : GetStart(f)
    \/ IterStart
    \/ \E n \in 1..MaxGetChunk : StreamChunk(n)
    \/ StreamEnd
    \/ \E e \in StreamFaults : StreamFail(e)
    \/ \E f \in GetFaults \cup {NoExc} : IterCheck(f)

SpecStores == InitStores /\ [][NextStores]_vars

\* a multi-tenant store whose trust delegation is disabled
NoTrusts == conf.store_class = "MultiTenantStore" /\ ~conf.swift_store_use_trusts

\* C40: the manager of add allows re-authentication exactly when the upload
\* is segmented (declared size 0 or >= the threshold), the manager of get
\* exactly when the configured retry count is > 0, and for a multi-tenant
\* store whose trust delegation is disabled the manager never allows it.
C40_AllowReauthFlag ==
    /\ (args.op = "add" /\ pc # "add")
       => manager.allow_reauth
             = ( /\ args.image_size = 0 \/ args.image_size >= conf.large_object_size
                 /\ ~NoTrusts )
    /\ (args.op = "get" /\ pc # "get")
       => manager.allow_reauth = (conf.swift_store_retry_get_count > 0 /\ ~NoTrusts)

\* C40 witness: a segmented add on a multi-tenant store without trusts wrote
\* two segments and its manifest with a manager that does not allow
\* re-authentication
C40_Witness ==
    /\ AddDone /\ result.kind = "return" /\ NoTrusts
    /\ args.image_size >= conf.large_object_size
    /\ Len(written_chunks) = 2
    /\ ~manager.allow_reauth

====
